---- MODULE Spec2Model ----
(***************************************************************************)
(* Route optimization pipeline of ezgo-poc.                                *)
(*                                                                         *)
(*   Spec        one run of the POST /optimize endpoint                    *)
(*               (app/api/v1/endpoints/route_optimization.py)              *)
(*   MatrixSpec  MapboxService.get_distance_matrix applied to one          *)
(*               provider response (app/services/mapbox_service.py)        *)
(*   PlanSpec    the vehicle-count rule of the endpoint applied to one     *)
(*               planner input                                             *)
(*   AssembleSpec one full matrix request of the endpoint: one call of     *)
(*               get_distance_matrix, or get_distance_matrix_chunked       *)
(*   SeqSpec     the provider calls of a run and of a matrix request       *)
(*   ClusterSpec ClusteringService.cluster_orders and                      *)
(*               merge_nearby_small_clusters applied to one point set      *)
(*               (app/services/clustering_service.py)                      *)
(*                                                                         *)
(* Optional values (Python None) are sequences: <<>> is None, <<v>> is v.  *)
(***************************************************************************)
EXTENDS Integers, Sequences, FiniteSets, TLC

VARIABLES
    \* ---- one run of optimize_routes ----
    pc,                 \* position of the run in the handler
    depot,              \* crud.depot.get: None or the depot row
    request,            \* request fields, each filled in where the handler first reads it
    orders,             \* `orders` (sequence of order ids)
    order_ids_list,     \* `order_ids_list`
    invalid_coords,     \* ids of the orders whose stored coordinate is out of range
    cluster_labels,     \* `cluster_labels`: None or one label per position
    cluster_metadata,   \* `cluster_metadata` (dict)
    attempt,            \* loop variable of `for attempt in range(max_retries)`
    valid_orders,       \* `valid_orders`
    valid_order_coords, \* `valid_order_coords`
    excluded_orders,    \* `excluded_orders`
    new_valid_orders,   \* `new_valid_orders` of the probe round
    new_valid_coords,   \* `new_valid_coords` of the probe round
    probe_i,            \* next position the probe loop tests (0: no probe round running)
    distance_matrix,    \* `distance_matrix`: None or the matrix returned
    num_vehicles,       \* `num_vehicles`: None until planned
    optimization_result,\* what RouteOptimizationService.optimize_routes returned
    calls,              \* log of get_distance_matrix invocations of the run
    clustering_calls,   \* number of ClusteringService.cluster_orders invocations
    clustering_errors,  \* number of times a clustering `except` handler ran
    solver_calls,       \* log of RouteOptimizationService.optimize_routes invocations
    result,             \* the RouteOptimizationResult returned, None if none
    http_error,         \* status code of the HTTPException raised, None if none
    \* ---- get_distance_matrix on one response ----
    m_pc, m_ncoords, m_coords_ok, m_resp, m_out,
    \* ---- vehicle planning on one input ----
    p_pc, p_in, p_out,
    \* ---- cluster_orders / merge_nearby_small_clusters on one point set ----
    c_pc,               \* "call", "merge", "returned", "merged", "remerged"
    c_coords,           \* `coordinates`: one grid position per point
    c_min,              \* `min_cluster_size` argument of cluster_orders
    c_hdbscan,          \* HDBSCAN_AVAILABLE
    c_labels,           \* `labels` argument of the first merge application
    c_out,              \* what cluster_orders returned or raised
    c_merged,           \* result of a first merge_nearby_small_clusters application
    c_again,            \* result of applying it again to c_merged
    \* ---- one full matrix request ----
    k_pc,               \* position in the request
    k_entry,            \* "endpoint" (lines 229-242) or "chunked" (a direct call)
    k_n,                \* number of orders; coordinate 0 is the depot, i is order i
    k_chunk_idx,        \* `chunk_idx`
    k_full,             \* `full_matrix`, None before line 221
    k_calls,            \* log of the get_distance_matrix calls and what each returned
    k_out,              \* None, or what the request returned or raised
    \* ---- one call of RouteOptimizationService.optimize_routes ----
    s_pc,               \* "start", "search", "extract", "done"
    s_matrix,           \* `distance_matrix`, entries in tenths of a second
    s_labels,           \* `cluster_labels`: None or one label per order
    s_vehicles,         \* `num_vehicles`
    s_arc,              \* what distance_callback returned for each pair of nodes
    s_solution,         \* None, or the `solution` SolveWithParameters returned
    s_result,           \* None, or the dict returned
    \* ---- the minimum cluster size of one clustering request ----
    z_pc,               \* "endpoint", "service", "done"
    z_n,                \* number of orders of the request
    z_hint,             \* `request.min_cluster_size`
    z_arg,              \* `min_cluster_size` the endpoint passes, None if it does not cluster
    z_used,             \* `min_cluster_size` HDBSCAN is built with, None if it is not run
    \* ---- the travel-time provider ----
    in_flight           \* requests sent to the provider and not yet answered

run_vars == <<pc, depot, request, orders, order_ids_list, invalid_coords,
              cluster_labels, cluster_metadata, attempt, valid_orders,
              valid_order_coords, excluded_orders, new_valid_orders,
              new_valid_coords, probe_i, distance_matrix, num_vehicles,
              optimization_result, calls, clustering_calls, clustering_errors,
              solver_calls, result, http_error>>
matrix_vars == <<m_pc, m_ncoords, m_coords_ok, m_resp, m_out>>
plan_vars == <<p_pc, p_in, p_out>>
cluster_vars == <<c_pc, c_coords, c_min, c_hdbscan, c_labels, c_out, c_merged, c_again>>
assemble_vars == <<k_pc, k_entry, k_n, k_chunk_idx, k_full, k_calls, k_out>>
solve_vars == <<s_pc, s_matrix, s_labels, s_vehicles, s_arc, s_solution, s_result>>
size_vars == <<z_pc, z_n, z_hint, z_arg, z_used>>
vars == <<run_vars, matrix_vars, plan_vars, cluster_vars, assemble_vars, solve_vars,
          size_vars, in_flight>>

(***************************************************************************)
(* Bounds of the model                                                     *)
(***************************************************************************)
MaxOrders == 4          \* orders found for a run
MaxLabel == 1           \* largest cluster id the clustering hands back
MaxInvalid == 1         \* orders with an out-of-range coordinate
MaxDrivers == 2         \* depot.available_drivers
MaxCoords == 3          \* coordinates of a call in MatrixSpec
MaxPlanOrders == 120    \* orders of a planner input in PlanSpec
MaxPlanDrivers == 4     \* ceiling of a planner input in PlanSpec
MaxPoints == 5          \* points of a cluster_orders call in ClusterSpec
MaxMergePoints == 4     \* points of a direct merge call in ClusterSpec
MaxPos == 5             \* largest grid position of a point in ClusterSpec
MaxRawLabel == 2        \* largest label of a labeling in ClusterSpec
MaxAssembleOrders == 50 \* orders of a matrix request in AssembleSpec
MaxSeed == 1            \* travel-time tables the provider answers from in AssembleSpec
MaxSolveOrders == 3     \* orders of a solver call in SolveSpec
MaxSolveVehicles == 2   \* vehicles of a solver call in SolveSpec
MaxSizeOrders == 130    \* orders of a clustering request in SizeSpec
MaxHint == 6            \* largest request.min_cluster_size in SizeSpec

(***************************************************************************)
(* Program constants                                                       *)
(***************************************************************************)
max_retries == 2
MatrixCoordLimit == 25
SingleCallMaxOrders == 24
chunk_size == 24
CLUSTER_PENALTY == 1000
SERVICE_TIME_PER_STOP == 300
avg_speed_kmh == 40
driver_capacity == 15
flat_capacity == 50
ReclusterMinOrders == 5
HdbscanMinClusterSize == 2
HdbscanShare == 20
max_cluster_size_for_merge == 5
max_merge_distance_km == 1
GridPerKm == 4
HTTP_400 == 400
HTTP_404 == 404
HTTP_500 == 500

(***************************************************************************)
(* Helpers                                                                 *)
(***************************************************************************)
None == << >>
Some(v) == <<v>>
IsNone(x) == x = << >>
Val(x) == x[1]

Min(a, b) == IF a <= b THEN a ELSE b
Max(a, b) == IF a >= b THEN a ELSE b
CeilDiv(a, b) == (a + b - 1) \div b

Range(s) == {s[i] : i \in 1..Len(s)}

RECURSIVE SumOver(_, _)
SumOver(S, f) ==
    IF S = {} THEN 0
    ELSE LET x == CHOOSE y \in S : TRUE IN f[x] + SumOver(S \ {x}, f)

Coord(o) == <<"coord", o>>

RECURSIVE CoordsOf(_)
CoordsOf(s) == IF s = << >> THEN << >> ELSE <<Coord(Head(s))>> \o CoordsOf(Tail(s))

(***************************************************************************)
(* MapboxService.get_distance_matrix                                       *)
(*                                                                         *)
(* A provider response is described by what the function inspects:         *)
(*   transport  "ok", or the requests exception raised by the GET          *)
(*   code       the "code" field of the JSON body                          *)
(*   nrows      len(durations); 0 when "durations" is missing or empty     *)
(*   ncols      length of the longest row of durations                     *)
(*   ragged     some row is shorter than the longest one                   *)
(*   cells      the kinds of entry that occur in durations                 *)
(***************************************************************************)
CellKinds == {"zero", "pos", "nan", "inf", "null"}

NoPayload(t, c) ==
    [transport |-> t, code |-> c, nrows |-> 0, ncols |-> 0,
     ragged |-> FALSE, cells |-> {}]

Payloads(n) ==
    {r \in [transport : {"ok"}, code : {"Ok"}, nrows : 0..(n + 1),
            ncols : 0..(n + 1), ragged : BOOLEAN, cells : SUBSET CellKinds] :
        /\ (r.nrows = 0 \/ r.ncols = 0) <=> r.cells = {}
        /\ r.nrows = 0 => r.ncols = 0
        /\ r.ragged => r.nrows >= 2 /\ r.ncols >= 1
        /\ Cardinality(r.cells) <= r.nrows * r.ncols}

Responses(n) ==
    {NoPayload("timeout", ""), NoPayload("error", ""), NoPayload("ok", "NoRoute")}
        \cup Payloads(n)

\* the body is a well-shaped n x n matrix of numbers
WellShaped(n, r) ==
    /\ r.transport = "ok" /\ r.code = "Ok"
    /\ r.nrows = n /\ r.ncols = n /\ ~r.ragged

\* the local checks that precede the HTTP request (lines 86-96)
IssuesRequest_NoCoordCheck(n, coords_ok) == n <= MatrixCoordLimit /\ n >= 2

IssuesRequest(n, coords_ok) == n <= MatrixCoordLimit /\ n >= 2 /\ coords_ok

\* get_distance_matrix without the NaN/inf test of lines 154-160
get_distance_matrix_NoNanCheck(n, coords_ok, r) ==
    IF n > MatrixCoordLimit \/ n < 2 \/ ~coords_ok THEN None
    ELSE IF r.transport # "ok" \/ r.code # "Ok" THEN None
    ELSE IF r.nrows = 0 \/ r.nrows # n THEN None
    ELSE IF r.ragged THEN None
    ELSE IF r.ncols # n THEN None
    ELSE Some([size |-> n, cells |-> r.cells])

get_distance_matrix(n, coords_ok, r) ==
    IF n > MatrixCoordLimit THEN None                   \* ValueError, caught at line 177
    ELSE IF n < 2 THEN None                             \* ValueError, caught at line 177
    ELSE IF ~coords_ok THEN None                        \* line 96
    ELSE IF r.transport # "ok" THEN None                \* lines 171-176
    ELSE IF r.code # "Ok" THEN None                     \* line 132
    ELSE IF r.nrows = 0 \/ r.nrows # n THEN None        \* line 142
    \* lines 145-149: all durations zero only prints a warning
    ELSE IF r.ragged THEN None                          \* np.array raises, caught at line 177
    ELSE IF r.cells \cap {"nan", "inf", "null"} # {} THEN None  \* line 160 (null becomes NaN)
    ELSE IF r.ncols # n THEN None                       \* line 166
    ELSE Some([size |-> n, cells |-> r.cells])          \* line 169

(***************************************************************************)
(* Vehicle count of the endpoint (step 6, lines 367-392)                   *)
(***************************************************************************)
EmptyDict == << >>
Get(d, k, default) == IF k \in DOMAIN d THEN d[k] ELSE default

\* line 394, rejecting negative counts only
InvalidVehicleCount_Negative(nv) == nv < 0

\* line 394
InvalidVehicleCount(nv) == nv <= 0

\* the rule with the per-driver capacity of the clustered branch in the default
ResolveNumVehicles_Capacity15(cl, meta, req, drivers, n) ==
    IF ~IsNone(cl) /\ Get(meta, "total_drivers_needed", 0) # 0
    THEN Min(meta["total_drivers_needed"], drivers)
    ELSE IF ~IsNone(cl) /\ Get(meta, "n_clusters", 0) > 0
    THEN Min(meta["n_clusters"], drivers)
    ELSE IF ~IsNone(req) /\ Val(req) # 0
    THEN Val(req)
    ELSE Min(drivers, Max(1, n \div driver_capacity))

ResolveNumVehicles(cl, meta, req, drivers, n) ==
    IF ~IsNone(cl) /\ Get(meta, "total_drivers_needed", 0) # 0
    THEN Min(meta["total_drivers_needed"], drivers)
    ELSE IF ~IsNone(cl) /\ Get(meta, "n_clusters", 0) > 0
    THEN Min(meta["n_clusters"], drivers)
    ELSE IF ~IsNone(req) /\ Val(req) # 0
    THEN Val(req)
    ELSE Min(drivers, Max(1, n \div flat_capacity))

(***************************************************************************)
(* The collaborators of a run                                              *)
(***************************************************************************)
\* what the travel-time provider may answer to a call of k coordinates
Matrix(k, c) ==
    [transport |-> "ok", code |-> "Ok", nrows |-> k, ncols |-> k,
     ragged |-> FALSE, cells |-> c]

ProviderResponses(k) ==
    {NoPayload("timeout", ""), NoPayload("ok", "NoRoute"),
     Matrix(k, {"zero", "pos"}), Matrix(k, {"zero"}), Matrix(k, {"zero", "nan"}),
     [Matrix(k, {"zero", "pos"}) EXCEPT !.ncols = k + 1]}

\* keys of the dict ClusteringService.cluster_orders returns
ClusterResultKeys == {"labels", "original_labels", "n_clusters", "centroids", "outlier_count"}

\* ClusteringService.cluster_orders seen from the endpoint: it raises, or it
\* returns one label >= 0 per point; the density clustering is run with a
\* minimum cluster size of at least 2 (line 98), so no cluster is a single point
cluster_orders_outcomes(n, min_cluster_size) ==
    {[raised |-> TRUE, labels |-> << >>, n_clusters |-> 0, outlier_count |-> 0]}
    \cup
    (IF n < min_cluster_size
     THEN {[raised |-> FALSE, labels |-> [i \in 1..n |-> 0], n_clusters |-> 1,
            outlier_count |-> 0]}
     ELSE {[raised |-> FALSE, labels |-> l,
            n_clusters |-> Cardinality(Range(l)), outlier_count |-> 0] :
                l \in {f \in [1..n -> 0..MaxLabel] :
                          \A c \in Range(f) :
                             Cardinality({i \in 1..n : f[i] = c}) >= HdbscanMinClusterSize}}
          \cup
          {[raised |-> FALSE, labels |-> [i \in 1..n |-> 0], n_clusters |-> 1,
            outlier_count |-> n]})

\* lines 166-195: drivers needed per cluster and in total
ClusterSize(labels, c) == Cardinality({i \in 1..Len(labels) : labels[i] = c})

ClusterDriverCounts(labels) ==
    [c \in Range(labels) |-> Max(1, CeilDiv(ClusterSize(labels, c), driver_capacity))]

TotalDriversNeeded(labels) ==
    SumOver(Range(labels), ClusterDriverCounts(labels))

\* RouteOptimizationService.optimize_routes seen from the endpoint
Indices(n) == [i \in 1..n |-> i - 1]

RECURSIVE Without(_, _)
Without(s, U) ==
    IF s = << >> THEN << >>
    ELSE IF Head(s) \in U THEN Without(Tail(s), U)
    ELSE <<Head(s)>> \o Without(Tail(s), U)

SolverRoutes(assigned, nv, split) ==
    IF assigned = << >> THEN << >>
    ELSE IF split /\ nv >= 2 /\ Len(assigned) >= 2
    THEN << [vehicle_id |-> 0, stops |-> <<Head(assigned)>>],
            [vehicle_id |-> 1, stops |-> Tail(assigned)] >>
    ELSE << [vehicle_id |-> 0, stops |-> assigned] >>

\* lines 166-173 reporting the search as a success
NoSolutionResult_Success(num_orders) ==
    [routes |-> << >>, solver_status |-> "SUCCESS", unassigned |-> Indices(num_orders)]

\* lines 164-173: SolveWithParameters returned no solution
NoSolutionResult(num_orders) ==
    [routes |-> << >>, solver_status |-> "FAILED", unassigned |-> Indices(num_orders)]

\* an outcome of the call: whether it raised, whether the search found a
\* solution, and the dict returned
Outcome(raised, solved, r) ==
    [raised |-> raised, solved |-> solved, routes |-> r.routes,
     solver_status |-> r.solver_status, unassigned |-> r.unassigned]

SolverOutcomes(n, nv) ==
    {Outcome(TRUE, FALSE, [routes |-> << >>, solver_status |-> "", unassigned |-> << >>]),
     Outcome(FALSE, FALSE, NoSolutionResult(n))}
    \cup
    {Outcome(FALSE, TRUE,
             [routes |-> SolverRoutes(Without(Indices(n), U), nv, split),
              solver_status |-> st,
              unassigned |-> [i \in 1..Cardinality(U) |-> n - 1]]) :
        U \in {{}, {n - 1}}, st \in {"SUCCESS", "PARTIAL_SUCCESS"}, split \in BOOLEAN}

(***************************************************************************)
(* ClusteringService (clustering_service.py)                               *)
(*                                                                         *)
(* The points of a call lie on one meridian, GridPerKm grid steps to the   *)
(* kilometre: a coordinate is one integer, and both the planar distance of *)
(* line 162 and haversine_distance_km are the difference of two positions. *)
(* A centroid (a mean) is kept exactly, as the pair <<sum, count>>.        *)
(***************************************************************************)
Abs(x) == IF x < 0 THEN -x ELSE x

Members(labels, c) == {i \in 1..Len(labels) : labels[i] = c}

\* np.unique(labels[labels >= 0])
Clusters(labels) == {c \in Range(labels) : c >= 0}

Mean(coords, S) == <<SumOver(S, coords), Cardinality(S)>>

\* lines 145-150 and 287-295
CentroidsOf(coords, labels) ==
    [c \in Clusters(labels) |-> Mean(coords, Members(labels, c))]

\* lines 263-268: haversine_distance_km(centroid_1, centroid_2) <= max_distance_km
WithinDistance(c1, c2, max_distance_km) ==
    Abs(c1[1] * c2[2] - c2[1] * c1[2]) <= max_distance_km * GridPerKm * c1[2] * c2[2]

\* lines 235-284: the pass over cluster_id_1, in ascending order
RECURSIVE MergePass(_, _, _, _, _, _, _)
MergePass(todo, labels, centroids, max_cluster_size, max_distance_km, updated, merged) ==
    IF todo = {} THEN updated
    ELSE LET cluster_id_1 == CHOOSE c \in todo : \A d \in todo : c <= d
             size(c) == Cardinality(Members(labels, c))
             candidates ==
                 {c2 \in Clusters(labels) \ {cluster_id_1} :
                     /\ c2 \notin merged
                     /\ size(c2) < max_cluster_size
                     /\ WithinDistance(centroids[cluster_id_1], centroids[c2],
                                       max_distance_km)}
         IN IF cluster_id_1 \in merged \/ size(cluster_id_1) >= max_cluster_size
            THEN MergePass(todo \ {cluster_id_1}, labels, centroids, max_cluster_size,
                           max_distance_km, updated, merged)
            ELSE MergePass(todo \ {cluster_id_1}, labels, centroids, max_cluster_size,
                           max_distance_km,
                           [i \in 1..Len(updated) |->
                               IF updated[i] \in candidates THEN cluster_id_1
                               ELSE updated[i]],
                           merged \cup candidates)

\* lines 194-297
merge_nearby_small_clusters(coords, labels, centroids, max_cluster_size, max_distance_km) ==
    LET updated_labels == MergePass(Clusters(labels), labels, centroids, max_cluster_size,
                                    max_distance_km, labels, {})
    IN [labels |-> updated_labels, centroids |-> CentroidsOf(coords, updated_labels)]

\* what hdbscan.HDBSCAN(min_cluster_size = m).fit_predict may do on n points:
\* raise, or label every point -1 (noise) or 0..k-1, each cluster holding at
\* least m points
fit_predict_outcomes(n, m) ==
    {[raised |-> TRUE, labels |-> << >>]}
    \cup
    {[raised |-> FALSE, labels |-> l] :
        l \in {f \in [1..n -> -1..MaxRawLabel] :
                  /\ \A c \in Clusters(f) : Cardinality(Members(f, c)) >= m
                  /\ \A c \in Clusters(f) : \A d \in 0..c : d \in Clusters(f)}}

ClusteringRaised ==
    [raised |-> TRUE, labels |-> << >>, original_labels |-> << >>, n_clusters |-> 0,
     centroids |-> [c \in {} |-> <<0, 0>>], outlier_count |-> 0]

\* lines 79-85 and 135-141: every point in cluster 0
SingleCluster(coords, original_labels, outlier_count) ==
    [raised |-> FALSE, labels |-> [i \in 1..Len(coords) |-> 0],
     original_labels |-> original_labels, n_clusters |-> 1,
     centroids |-> [c \in {0} |-> Mean(coords, 1..Len(coords))],
     outlier_count |-> outlier_count]

\* line 76 never taking the small-set branch
TooFewPoints_Never(coords, min_cluster_size) == FALSE

\* line 76
TooFewPoints(coords, min_cluster_size) == Len(coords) < min_cluster_size

\* line 98
hdbscan_min_cluster_size(coords, min_cluster_size) ==
    Max(HdbscanMinClusterSize, Min(min_cluster_size, Len(coords) \div HdbscanShare))

\* np.argmin over the centroids in ascending cluster order: the nearest
\* centroid, the smallest cluster id on a tie
NearestCluster(p, centroids) ==
    LET d(c) == <<Abs(p * centroids[c][2] - centroids[c][1]), centroids[c][2]>>
        closer(a, b) == d(a)[1] * d(b)[2] < d(b)[1] * d(a)[2]
    IN CHOOSE c \in DOMAIN centroids :
          \A e \in DOMAIN centroids : ~closer(e, c) /\ (closer(c, e) \/ c <= e)

\* lines 153-169 leaving the outliers as they are
ReassignOutliers_Skip(coords, labels, centroids) == labels

\* lines 153-169
ReassignOutliers(coords, labels, centroids) ==
    [i \in 1..Len(coords) |->
        IF labels[i] = -1 THEN NearestCluster(coords[i], centroids)
        ELSE labels[i]]

\* lines 73-191; hdbscan_available is HDBSCAN_AVAILABLE, fit what fit_predict did
cluster_orders(coords, min_cluster_size, hdbscan_available, fit) ==
    IF ~hdbscan_available THEN ClusteringRaised                         \* line 74
    ELSE IF TooFewPoints(coords, min_cluster_size)
    THEN SingleCluster(coords, [i \in 1..Len(coords) |-> 0], 0)         \* lines 79-85
    ELSE IF fit.raised THEN ClusteringRaised                            \* line 122
    ELSE LET original_labels == fit.labels
             outlier_count == Cardinality(Members(original_labels, -1))
             n_clusters == Cardinality(Clusters(original_labels))
             centroids == CentroidsOf(coords, original_labels)
             reassigned == IF outlier_count > 0 /\ n_clusters > 0
                               THEN ReassignOutliers(coords, original_labels, centroids)
                               ELSE original_labels
             merged == merge_nearby_small_clusters(coords, reassigned, centroids,
                                                   max_cluster_size_for_merge,
                                                   max_merge_distance_km)
         IN IF n_clusters = 0
            THEN SingleCluster(coords, original_labels, Len(coords))    \* lines 135-141
            ELSE IF n_clusters > 1
            THEN [raised |-> FALSE, labels |-> merged.labels,
                  original_labels |-> original_labels,
                  n_clusters |-> Cardinality(Clusters(merged.labels)),
                  centroids |-> merged.centroids, outlier_count |-> outlier_count]
            ELSE [raised |-> FALSE, labels |-> reassigned,
                  original_labels |-> original_labels, n_clusters |-> n_clusters,
                  centroids |-> centroids, outlier_count |-> outlier_count]

(***************************************************************************)
(* Results of the endpoint                                                 *)
(***************************************************************************)
\* the empty result reported as a failure
NoOrdersResult_Failed ==
    [success |-> FALSE, routes |-> << >>, total_routes |-> 0, total_orders |-> 0,
     unassigned_orders |-> << >>, solver_status |-> "NO_ORDERS",
     used_clustering |-> FALSE, num_clusters |-> None,
     metadata |-> [message |-> "No orders found for optimization"]]

NoOrdersResult ==
    [success |-> TRUE, routes |-> << >>, total_routes |-> 0, total_orders |-> 0,
     unassigned_orders |-> << >>, solver_status |-> "NO_ORDERS",
     used_clustering |-> FALSE, num_clusters |-> None,
     metadata |-> [message |-> "No orders found for optimization"]]

NoValidOrdersResult(unassigned, err, excluded) ==
    [success |-> FALSE, routes |-> << >>, total_routes |-> 0, total_orders |-> 0,
     unassigned_orders |-> unassigned, solver_status |-> "NO_VALID_ORDERS",
     used_clustering |-> FALSE, num_clusters |-> Some(0),
     metadata |-> [error |-> err, excluded_orders |-> Len(excluded)]]

\* np.bincount(stop_clusters).argmax(): the smallest of the most frequent labels
DominantCluster(labels, stops) ==
    LET cnt(c) == Cardinality({j \in 1..Len(stops) : labels[stops[j] + 1] = c})
        present == {labels[stops[j] + 1] : j \in 1..Len(stops)}
    IN CHOOSE c \in present :
          \A d \in present : cnt(d) < cnt(c) \/ (cnt(d) = cnt(c) /\ c <= d)

OptimizedRoute(route, ords, cl) ==
    [vehicle_id |-> route.vehicle_id,
     stops |-> [j \in 1..Len(route.stops) |-> ords[route.stops[j] + 1]],
     num_stops |-> Len(route.stops),
     cluster_id |-> IF ~IsNone(cl) /\ route.stops # << >>
                    THEN Some(DominantCluster(Val(cl), route.stops)) ELSE None]

RECURSIVE UnassignedIds(_, _)
UnassignedIds(unassigned, ids) ==
    IF unassigned = << >> THEN << >>
    ELSE (IF 0 <= Head(unassigned) /\ Head(unassigned) < Len(ids)
          THEN <<ids[Head(unassigned) + 1]>> ELSE << >>)
         \o UnassignedIds(Tail(unassigned), ids)

FinalResult(opt, ords, ids, cl, meta, nv) ==
    LET routes == [j \in 1..Len(opt.routes) |-> OptimizedRoute(opt.routes[j], ords, cl)]
        unassigned_order_ids == UnassignedIds(opt.unassigned, ids)
    IN [success |-> opt.solver_status \in {"SUCCESS", "ROUTING_SUCCESS", "PARTIAL_SUCCESS"}
                        /\ Len(routes) > 0,
        routes |-> routes,
        total_routes |-> Len(routes),
        total_orders |-> Len(ords) - Len(unassigned_order_ids),
        unassigned_orders |-> unassigned_order_ids,
        solver_status |-> opt.solver_status,
        used_clustering |-> ~IsNone(cl),
        num_clusters |-> IF ~IsNone(cl)
                         THEN Some(Get(meta, "n_clusters", 0) + Get(meta, "outlier_count", 0))
                         ELSE None,
        metadata |-> [depot_id |-> "depot", depot_name |-> "depot", depot_location |-> "depot",
                      num_vehicles_requested |-> nv,
                      num_vehicles_used |-> Len(opt.routes),
                      clustering |-> IF ~IsNone(cl) THEN Some(meta) ELSE None,
                      cluster_assignments |->
                          IF ~IsNone(cl)
                          THEN Some([j \in 1..Len(ords) |-> <<ords[j], Val(cl)[j]>>])
                          ELSE None,
                      original_cluster_assignments |-> IF ~IsNone(cl) THEN Some("labels") ELSE None,
                      total_groups |-> IF ~IsNone(cl)
                                       THEN Some(Get(meta, "n_clusters", 0) + Get(meta, "outlier_count", 0))
                                       ELSE None]]

(***************************************************************************)
(* One run of optimize_routes                                              *)
(*                                                                         *)
(* request.use_clustering, request.min_cluster_size, request.num_vehicles  *)
(* and depot.available_drivers never change during a run; each is drawn    *)
(* by the step that first reads it and kept from then on.                  *)
(***************************************************************************)
MinClusterSizes == {2, 5}                               \* Field(default=5, ge=2)
RequestedVehicles == {None} \cup {Some(v) : v \in {-1, 0, 1, MaxDrivers + 1}}
Drivers == 0..MaxDrivers                                \* Field(default=5, ge=0)

Unread == << >>
UseClustering == Val(request.use_clustering)
MinClusterSize == Val(request.min_cluster_size)
ReqNumVehicles == Val(request.num_vehicles)
AvailableDrivers == Val(Val(depot).available_drivers)

RunIdle ==
    /\ pc = "idle" /\ depot = None
    /\ request = [use_clustering |-> Unread, min_cluster_size |-> Unread, num_vehicles |-> Unread]
    /\ orders = << >> /\ order_ids_list = << >> /\ invalid_coords = {}
    /\ cluster_labels = None /\ cluster_metadata = EmptyDict
    /\ attempt = 0 /\ valid_orders = << >> /\ valid_order_coords = << >>
    /\ excluded_orders = << >> /\ new_valid_orders = << >> /\ new_valid_coords = << >>
    /\ probe_i = 0 /\ distance_matrix = None /\ num_vehicles = None
    /\ optimization_result = None /\ calls = << >> /\ clustering_calls = 0
    /\ clustering_errors = 0
    /\ solver_calls = << >> /\ result = None /\ http_error = None
MatrixIdle ==
    /\ m_pc = "idle" /\ m_ncoords = 0 /\ m_coords_ok = TRUE
    /\ m_resp = NoPayload("error", "") /\ m_out = None
PlanIdle ==
    /\ p_pc = "idle" /\ p_in = << >> /\ p_out = None
AssembleIdle ==
    /\ k_pc = "idle" /\ k_entry = "endpoint" /\ k_n = 0 /\ k_chunk_idx = 0
    /\ k_full = None /\ k_calls = << >> /\ k_out = None
SolveIdle ==
    /\ s_pc = "idle" /\ s_matrix = << >> /\ s_labels = None /\ s_vehicles = 0
    /\ s_arc = None /\ s_solution = None /\ s_result = None
SizeIdle ==
    /\ z_pc = "idle" /\ z_n = 0 /\ z_hint = 0 /\ z_arg = None /\ z_used = None
ClusterIdle ==
    /\ c_pc = "idle" /\ c_coords = << >> /\ c_min = 0 /\ c_hdbscan = TRUE
    /\ c_labels = << >>
    /\ c_out = None /\ c_merged = None /\ c_again = None

RunInit ==
    /\ pc = "get_depot"
    /\ depot \in {None} \cup
                 {Some([coords_valid |-> b, available_drivers |-> Unread]) : b \in BOOLEAN}
    /\ request = [use_clustering |-> Unread, min_cluster_size |-> Unread, num_vehicles |-> Unread]
    /\ orders = << >> /\ order_ids_list = << >> /\ invalid_coords = {}
    /\ cluster_labels = None /\ cluster_metadata = EmptyDict
    /\ attempt = 0 /\ valid_orders = << >> /\ valid_order_coords = << >>
    /\ excluded_orders = << >> /\ new_valid_orders = << >> /\ new_valid_coords = << >>
    /\ probe_i = 0 /\ distance_matrix = None /\ num_vehicles = None
    /\ optimization_result = None /\ calls = << >> /\ clustering_calls = 0
    /\ clustering_errors = 0
    /\ solver_calls = << >> /\ result = None /\ http_error = None

Init ==
    /\ RunInit /\ MatrixIdle /\ PlanIdle /\ ClusterIdle /\ AssembleIdle
    /\ SolveIdle /\ SizeIdle /\ in_flight = << >>

idle_vars == <<matrix_vars, plan_vars, cluster_vars, assemble_vars, solve_vars, size_vars>>
loop_vars == <<attempt, valid_orders, valid_order_coords, excluded_orders,
               new_valid_orders, new_valid_coords, probe_i, distance_matrix>>

Return(r) == result' = Some(r) /\ http_error' = None /\ pc' = "done"
Raise(code) == http_error' = Some(code) /\ result' = None /\ pc' = "done"
Goto(l) == pc' = l /\ UNCHANGED <<result, http_error>>

\* lines 47-54
GetDepot ==
    /\ pc = "get_depot"
    /\ IF IsNone(depot) THEN Raise(HTTP_404) ELSE Goto("get_orders")
    /\ UNCHANGED <<depot, request, orders, order_ids_list, invalid_coords,
                   cluster_labels, cluster_metadata, loop_vars, num_vehicles,
                   optimization_result, calls, clustering_calls, solver_calls>>
    /\ UNCHANGED <<clustering_errors, in_flight>>
    /\ UNCHANGED idle_vars

\* lines 64-115: the orders found, and the empty case
GetOrders ==
    /\ pc = "get_orders"
    /\ \E n \in 0..MaxOrders, inv \in SUBSET (1..MaxOrders) :
          /\ inv \subseteq 1..n /\ Cardinality(inv) <= MaxInvalid
          /\ orders' = [i \in 1..n |-> i]
          /\ invalid_coords' = inv
          /\ IF n = 0
             THEN Return(NoOrdersResult) /\ order_ids_list' = order_ids_list
             ELSE Goto("validate_depot") /\ order_ids_list' = [i \in 1..n |-> i]
    /\ UNCHANGED <<depot, request, cluster_labels, cluster_metadata, loop_vars,
                   num_vehicles, optimization_result, calls, clustering_calls,
                   solver_calls>>
    /\ UNCHANGED <<clustering_errors, in_flight>>
    /\ UNCHANGED idle_vars

\* line 127 with the range test dropped
DepotCoordsValid_Always(d) == TRUE

\* line 127
DepotCoordsValid(d) == d.coords_valid

\* lines 125-132
ValidateDepot ==
    /\ pc = "validate_depot"
    /\ IF DepotCoordsValid(Val(depot)) THEN Goto("cluster") ELSE Raise(HTTP_400)
    /\ UNCHANGED <<depot, request, orders, order_ids_list, invalid_coords,
                   cluster_labels, cluster_metadata, loop_vars, num_vehicles,
                   optimization_result, calls, clustering_calls, solver_calls>>
    /\ UNCHANGED <<clustering_errors, in_flight>>
    /\ UNCHANGED idle_vars

\* lines 206-208 leaving the labels assigned at line 156 in place
OnClusteringError_KeepLabels(labels) == labels

\* lines 206-208: the handler of a clustering error
OnClusteringError(labels) == None

\* lines 134-210
Cluster ==
    /\ pc = "cluster"
    /\ \E uc \in BOOLEAN, mcs \in MinClusterSizes :
          /\ request' = [request EXCEPT !.use_clustering = Some(uc),
                                        !.min_cluster_size = Some(mcs)]
          /\ IF uc /\ Len(orders) >= mcs
             THEN LET effective_min_cluster_size == Min(mcs, Max(3, Len(orders) \div 30))
                  IN \E oc \in cluster_orders_outcomes(Len(orders), effective_min_cluster_size),
                        writeback_raises \in BOOLEAN :
                        /\ clustering_calls' = clustering_calls + 1
                        /\ clustering_errors' =
                              IF oc.raised \/ writeback_raises THEN clustering_errors + 1
                              ELSE clustering_errors
                        /\ IF oc.raised
                           THEN /\ ~writeback_raises
                                /\ cluster_labels' = OnClusteringError(cluster_labels)
                                /\ cluster_metadata' = EmptyDict
                           ELSE /\ cluster_labels' =
                                      IF writeback_raises
                                      THEN OnClusteringError(Some(oc.labels))
                                      ELSE Some(oc.labels)
                                /\ cluster_metadata' =
                                      [n_clusters |-> oc.n_clusters,
                                       outlier_count |-> oc.outlier_count,
                                       total_drivers_needed |-> TotalDriversNeeded(oc.labels)]
             ELSE UNCHANGED <<cluster_labels, cluster_metadata, clustering_calls,
                              clustering_errors>>
    /\ Goto("matrix_setup")
    /\ UNCHANGED <<depot, orders, order_ids_list, invalid_coords, loop_vars,
                   num_vehicles, optimization_result, calls, solver_calls, in_flight>>
    /\ UNCHANGED idle_vars

\* lines 217-225
MatrixSetup ==
    /\ pc = "matrix_setup"
    /\ valid_orders' = orders
    /\ valid_order_coords' = CoordsOf(orders)
    /\ excluded_orders' = << >>
    /\ attempt' = 0
    /\ Goto("attempt")
    /\ UNCHANGED <<depot, request, orders, order_ids_list, invalid_coords,
                   cluster_labels, cluster_metadata, new_valid_orders,
                   new_valid_coords, probe_i, distance_matrix, num_vehicles,
                   optimization_result, calls, clustering_calls, solver_calls>>
    /\ UNCHANGED <<clustering_errors, in_flight>>
    /\ UNCHANGED idle_vars

CoordsValid(os) == Range(os) \cap invalid_coords = {}

Call(kind, os, m) ==
    [kind |-> kind, attempt |-> attempt, orders |-> os,
     http |-> IssuesRequest(1 + Len(os), CoordsValid(os)), ok |-> ~IsNone(m)]

\* a request on its way to the provider
Request(kind, os) == [kind |-> kind, orders |-> os]

\* requests.get (mapbox_service.py line 124) sends the request, when the local
\* checks of lines 86-96 let the call get that far, and blocks
Send(kind, os) ==
    IF IssuesRequest(1 + Len(os), CoordsValid(os))
    THEN Append(in_flight, Request(kind, os))
    ELSE in_flight

\* line 124 not waiting for the answer: the request stays outstanding
Answered_Pending(kind, os) == in_flight

\* the provider's answer, or the timeout, ends the wait for the request
Answered(kind, os) ==
    IF IssuesRequest(1 + Len(os), CoordsValid(os))
    THEN SelectSeq(in_flight, LAMBDA q : q # Request(kind, os))
    ELSE in_flight

\* lines 227-233: a pass of the retry loop calls get_distance_matrix on the
\* depot and every candidate order
Attempt ==
    /\ pc = "attempt"
    /\ attempt < max_retries
    /\ Len(valid_orders) <= SingleCallMaxOrders
    /\ in_flight' = Send("full", valid_orders)
    /\ Goto("attempt_wait")
    /\ UNCHANGED <<depot, request, orders, order_ids_list, invalid_coords,
                   cluster_labels, cluster_metadata, loop_vars, num_vehicles,
                   optimization_result, calls, clustering_calls, clustering_errors,
                   solver_calls>>
    /\ UNCHANGED idle_vars

\* lines 233-262 and 310-329: the call returns; the rest of the pass up to
\* the probe round
AttemptReturn ==
    /\ pc = "attempt_wait"
    /\ in_flight' = Answered("full", valid_orders)
    /\ \E r \in ProviderResponses(1 + Len(valid_orders)) :
          LET m == get_distance_matrix(1 + Len(valid_order_coords),
                                       CoordsValid(valid_orders), r)
          IN /\ calls' = Append(calls, Call("full", valid_orders, m))
             /\ distance_matrix' = m
             /\ IF ~IsNone(m)
                THEN /\ orders' = valid_orders
                     /\ Goto("post_matrix")
                     /\ UNCHANGED <<new_valid_orders, new_valid_coords, probe_i>>
                ELSE /\ orders' = orders
                     /\ IF attempt < max_retries - 1 /\ Len(valid_orders) > 1
                        THEN /\ new_valid_orders' = << >>
                             /\ new_valid_coords' = << >>
                             /\ probe_i' = 1
                             /\ Goto("probe")
                        ELSE /\ UNCHANGED <<new_valid_orders, new_valid_coords, probe_i>>
                             /\ IF Len(valid_orders) = 0
                                THEN Return(NoValidOrdersResult(<< >>,
                                                "No orders could be routed", excluded_orders))
                                ELSE Raise(HTTP_500)
    /\ UNCHANGED <<depot, request, order_ids_list, invalid_coords, cluster_labels,
                   cluster_metadata, attempt, valid_orders, valid_order_coords,
                   excluded_orders, num_vehicles, optimization_result,
                   clustering_calls, solver_calls>>
    /\ UNCHANGED clustering_errors
    /\ UNCHANGED idle_vars

\* lines 266-272: an iteration of the probe loop calls get_distance_matrix on
\* the depot and one order
Probe ==
    /\ pc = "probe"
    /\ probe_i \in 1..Len(valid_orders)
    /\ in_flight' = Send("probe", <<valid_orders[probe_i]>>)
    /\ Goto("probe_wait")
    /\ UNCHANGED <<depot, request, orders, order_ids_list, invalid_coords,
                   cluster_labels, cluster_metadata, loop_vars, num_vehicles,
                   optimization_result, calls, clustering_calls, clustering_errors,
                   solver_calls>>
    /\ UNCHANGED idle_vars

\* line 273 taking every probe for a success
ProbeSucceeded_Always(test_matrix) == TRUE

\* line 273
ProbeSucceeded(test_matrix) == ~IsNone(test_matrix)

\* lines 269-281: the probe returns and the order is kept or excluded
ProbeReturn ==
    /\ pc = "probe_wait"
    /\ probe_i \in 1..Len(valid_orders)
    /\ in_flight' = Answered("probe", <<valid_orders[probe_i]>>)
    /\ LET order == valid_orders[probe_i]
           coord == valid_order_coords[probe_i]
       IN \E r \in ProviderResponses(2) :
             LET test_matrix == get_distance_matrix(2, CoordsValid(<<order>>), r)
             IN /\ calls' = Append(calls, Call("probe", <<order>>, test_matrix))
                /\ IF ProbeSucceeded(test_matrix)
                   THEN /\ new_valid_orders' = Append(new_valid_orders, order)
                        /\ new_valid_coords' = Append(new_valid_coords, coord)
                        /\ UNCHANGED excluded_orders
                   ELSE /\ excluded_orders' = Append(excluded_orders, order)
                        /\ UNCHANGED <<new_valid_orders, new_valid_coords>>
    /\ probe_i' = probe_i + 1
    /\ IF probe_i = Len(valid_orders) THEN Goto("probe_end") ELSE Goto("probe")
    /\ UNCHANGED <<depot, request, orders, order_ids_list, invalid_coords,
                   cluster_labels, cluster_metadata, attempt, valid_orders,
                   valid_order_coords, distance_matrix, num_vehicles,
                   optimization_result, clustering_calls, solver_calls>>
    /\ UNCHANGED clustering_errors
    /\ UNCHANGED idle_vars

\* line 227 staying at the same pass of `for attempt in range(max_retries)`
NextAttempt_Same(a) == a

\* line 227: the loop's next pass
NextAttempt(a) == a + 1

\* line 285 keeping the coordinates of the candidates of the failed attempt
RetryCoords_Stale(new_coords, old_coords) == old_coords

\* line 285
RetryCoords(new_coords, old_coords) == new_coords

\* lines 283-309: what the probe round found
ProbeEnd ==
    /\ pc = "probe_end"
    /\ probe_i' = 0
    /\ IF Len(new_valid_orders) < Len(valid_orders)
       THEN /\ valid_orders' = new_valid_orders
            /\ valid_order_coords' = RetryCoords(new_valid_coords, valid_order_coords)
            /\ IF Len(new_valid_orders) = 0
               THEN /\ Return(NoValidOrdersResult(excluded_orders,
                                "All selected orders are unroutable from this depot",
                                excluded_orders))
                    /\ UNCHANGED attempt
               ELSE /\ attempt' = NextAttempt(attempt)
                    /\ Goto("attempt")
       ELSE /\ Raise(HTTP_500)
            /\ UNCHANGED <<valid_orders, valid_order_coords, attempt>>
    /\ UNCHANGED <<depot, request, orders, order_ids_list, invalid_coords,
                   cluster_labels, cluster_metadata, excluded_orders,
                   new_valid_orders, new_valid_coords, distance_matrix,
                   num_vehicles, optimization_result, calls, clustering_calls,
                   solver_calls>>
    /\ UNCHANGED <<clustering_errors, in_flight>>
    /\ UNCHANGED idle_vars

\* lines 331-365: after the loop, the bookkeeping for excluded orders
PostMatrix ==
    /\ pc = "post_matrix"
    /\ IF excluded_orders # << >>
       THEN /\ order_ids_list' = orders
            /\ IF ~IsNone(cluster_labels) /\ Len(orders) >= ReclusterMinOrders
               THEN LET effective_min_cluster_size ==
                            Min(MinClusterSize, Max(3, Len(orders) \div 30))
                    IN \E oc \in cluster_orders_outcomes(Len(orders), effective_min_cluster_size) :
                          /\ clustering_calls' = clustering_calls + 1
                          \* line 352 reads a key the returned dict does not have
                          /\ IF oc.raised \/ ~({"labels", "unique_labels", "metadata"}
                                                    \subseteq ClusterResultKeys)
                             THEN /\ cluster_labels' = None /\ cluster_metadata' = EmptyDict
                                  /\ clustering_errors' = clustering_errors + 1
                             ELSE /\ cluster_labels' = Some(oc.labels)
                                  /\ cluster_metadata' = [n_clusters |-> oc.n_clusters]
                                  /\ UNCHANGED clustering_errors
               ELSE UNCHANGED <<cluster_labels, cluster_metadata, clustering_calls,
                                clustering_errors>>
       ELSE UNCHANGED <<order_ids_list, cluster_labels, cluster_metadata, clustering_calls,
                        clustering_errors>>
    /\ Goto("plan")
    /\ UNCHANGED <<depot, request, orders, invalid_coords, loop_vars, num_vehicles,
                   optimization_result, calls, solver_calls, in_flight>>
    /\ UNCHANGED idle_vars

\* lines 367-399
Plan ==
    /\ pc = "plan"
    /\ \E d \in Drivers, req \in RequestedVehicles :
          LET nv == ResolveNumVehicles(cluster_labels, cluster_metadata, req, d, Len(orders))
          IN /\ depot' = Some([Val(depot) EXCEPT !.available_drivers = Some(d)])
             /\ request' = [request EXCEPT !.num_vehicles = Some(req)]
             /\ num_vehicles' = Some(nv)
             /\ IF InvalidVehicleCount(nv) THEN Raise(HTTP_400) ELSE Goto("solve")
    /\ UNCHANGED <<orders, order_ids_list, invalid_coords, cluster_labels,
                   cluster_metadata, loop_vars, optimization_result, calls,
                   clustering_calls, solver_calls>>
    /\ UNCHANGED <<clustering_errors, in_flight>>
    /\ UNCHANGED idle_vars

\* lines 401-441
Solve ==
    /\ pc = "solve"
    /\ solver_calls' = Append(solver_calls,
                              [order_ids |-> order_ids_list,
                               order_coords |-> CoordsOf(orders),
                               matrix_size |-> Val(distance_matrix).size,
                               num_vehicles |-> Val(num_vehicles),
                               cluster_labels |-> cluster_labels])
    /\ \E out \in SolverOutcomes(Val(distance_matrix).size - 1, Val(num_vehicles)) :
          IF out.raised
          THEN Raise(HTTP_500) /\ UNCHANGED optimization_result
          ELSE optimization_result' = Some(out) /\ Goto("format")
    /\ UNCHANGED <<depot, request, orders, order_ids_list, invalid_coords,
                   cluster_labels, cluster_metadata, loop_vars, num_vehicles, calls,
                   clustering_calls>>
    /\ UNCHANGED <<clustering_errors, in_flight>>
    /\ UNCHANGED idle_vars

\* lines 443-572
Format ==
    /\ pc = "format"
    /\ Return(FinalResult(Val(optimization_result), orders, order_ids_list,
                          cluster_labels, cluster_metadata, Val(num_vehicles)))
    /\ UNCHANGED <<depot, request, orders, order_ids_list, invalid_coords,
                   cluster_labels, cluster_metadata, loop_vars, num_vehicles,
                   optimization_result, calls, clustering_calls, solver_calls>>
    /\ UNCHANGED <<clustering_errors, in_flight>>
    /\ UNCHANGED idle_vars

Next ==
    \/ GetDepot
    \/ GetOrders
    \/ ValidateDepot
    \/ Cluster
    \/ MatrixSetup
    \/ Attempt
    \/ AttemptReturn
    \/ Probe
    \/ ProbeReturn
    \/ ProbeEnd
    \/ PostMatrix
    \/ Plan
    \/ Solve
    \/ Format

Spec == Init /\ [][Next]_vars

\* the run is one synchronous request handler: it takes its next step as long
\* as it has one, every provider call returning or timing out (timeout=60)
LiveSpec == Init /\ [][Next]_vars /\ WF_vars(Next)

(***************************************************************************)
(* get_distance_matrix applied to one response                             *)
(***************************************************************************)
MatrixInit ==
    /\ m_pc = "call"
    /\ m_ncoords \in (1..MaxCoords) \cup {MatrixCoordLimit + 1}
    /\ m_coords_ok \in BOOLEAN
    /\ m_resp \in Responses(IF m_ncoords <= MaxCoords THEN m_ncoords ELSE 1)
    /\ m_out = None
    /\ RunIdle /\ SolveIdle /\ SizeIdle /\ PlanIdle /\ ClusterIdle /\ AssembleIdle /\ in_flight = << >>

MatrixCall ==
    /\ m_pc = "call"
    /\ m_out' = get_distance_matrix(m_ncoords, m_coords_ok, m_resp)
    /\ m_pc' = "returned"
    /\ UNCHANGED <<m_ncoords, m_coords_ok, m_resp>>
    /\ UNCHANGED <<run_vars, solve_vars, size_vars, plan_vars, cluster_vars, assemble_vars, in_flight>>

MatrixNext == MatrixCall

MatrixSpec == MatrixInit /\ [][MatrixNext]_vars

(***************************************************************************)
(* The vehicle-count rule applied to one planner input                     *)
(***************************************************************************)
PlanInputs ==
    [cluster_labels : {None, Some(<<0>>)},
     cluster_metadata : {EmptyDict} \cup {[n_clusters |-> c] : c \in 1..2}
                        \cup {[n_clusters |-> c, outlier_count |-> 0,
                               total_drivers_needed |-> t] : c \in 1..2, t \in 1..(MaxPlanDrivers + 1)},
     num_vehicles : {None} \cup {Some(v) : v \in -1..(MaxPlanDrivers + 1)},
     available_drivers : 0..MaxPlanDrivers,
     n_orders : 1..MaxPlanOrders]

PlanInit ==
    /\ p_pc = "plan"
    /\ p_in \in PlanInputs
    /\ p_out = None
    /\ RunIdle /\ SolveIdle /\ SizeIdle /\ MatrixIdle /\ ClusterIdle /\ AssembleIdle /\ in_flight = << >>

PlanApply ==
    /\ p_pc = "plan"
    /\ p_out' = Some(ResolveNumVehicles(p_in.cluster_labels, p_in.cluster_metadata,
                                        p_in.num_vehicles, p_in.available_drivers,
                                        p_in.n_orders))
    /\ p_pc' = IF InvalidVehicleCount(Val(p_out')) THEN "rejected" ELSE "solve"
    /\ UNCHANGED p_in
    /\ UNCHANGED <<run_vars, solve_vars, size_vars, matrix_vars, cluster_vars, assemble_vars, in_flight>>

PlanNext == PlanApply

PlanSpec == PlanInit /\ [][PlanNext]_vars

(***************************************************************************)
(* cluster_orders and merge_nearby_small_clusters applied to one point set *)
(***************************************************************************)
MinClusterSizeArgs == {2, 3, 5}

\* the points of a call, listed by ascending position
PointSets(n) == {f \in [1..n -> 0..MaxPos] : \A i \in 1..(n - 1) : f[i] <= f[i + 1]}

ClusterInit ==
    /\ c_pc \in {"call", "merge"}
    /\ \E n \in 1..MaxPoints :
          /\ c_pc = "merge" => n <= MaxMergePoints
          /\ c_coords \in PointSets(n)
    /\ c_min \in (IF c_pc = "call" THEN MinClusterSizeArgs ELSE {0})
    /\ c_hdbscan \in (IF c_pc = "call" THEN BOOLEAN ELSE {TRUE})
    /\ c_labels = << >> /\ c_out = None /\ c_merged = None /\ c_again = None
    /\ RunIdle /\ SolveIdle /\ SizeIdle /\ MatrixIdle /\ PlanIdle /\ AssembleIdle /\ in_flight = << >>

\* one call of cluster_orders
ClusterOrdersCall ==
    /\ c_pc = "call"
    /\ \E fit \in fit_predict_outcomes(Len(c_coords),
                                       hdbscan_min_cluster_size(c_coords, c_min)) :
          c_out' = Some(cluster_orders(c_coords, c_min, c_hdbscan, fit))
    /\ c_pc' = "returned"
    /\ UNCHANGED <<c_coords, c_min, c_hdbscan, c_labels, c_merged, c_again>>
    /\ UNCHANGED <<run_vars, solve_vars, size_vars, matrix_vars, plan_vars, assemble_vars, in_flight>>

\* a first application of merge_nearby_small_clusters, to any labeling of the
\* points and the centroids of its clusters
MergeCall ==
    /\ c_pc = "merge"
    /\ \E l \in [1..Len(c_coords) -> -1..MaxRawLabel] :
          /\ c_labels' = l
          /\ c_merged' = Some(merge_nearby_small_clusters(
                                 c_coords, l, CentroidsOf(c_coords, l),
                                 max_cluster_size_for_merge, max_merge_distance_km))
    /\ c_pc' = "merged"
    /\ UNCHANGED <<c_coords, c_min, c_hdbscan, c_out, c_again>>
    /\ UNCHANGED <<run_vars, solve_vars, size_vars, matrix_vars, plan_vars, assemble_vars, in_flight>>

\* a second application, to the labels and centroids the first one returned
MergeAgain ==
    /\ c_pc = "merged"
    /\ c_again' = Some(merge_nearby_small_clusters(
                          c_coords, Val(c_merged).labels, Val(c_merged).centroids,
                          max_cluster_size_for_merge, max_merge_distance_km))
    /\ c_pc' = "remerged"
    /\ UNCHANGED <<c_coords, c_min, c_hdbscan, c_labels, c_out, c_merged>>
    /\ UNCHANGED <<run_vars, solve_vars, size_vars, matrix_vars, plan_vars, assemble_vars, in_flight>>

ClusterNext ==
    \/ ClusterOrdersCall
    \/ MergeCall
    \/ MergeAgain

ClusterSpec == ClusterInit /\ [][ClusterNext]_vars

(***************************************************************************)
(* One full matrix request: get_distance_matrix on the depot and all       *)
(* orders, or get_distance_matrix_chunked (mapbox_service.py 183-274)      *)
(*                                                                         *)
(* Here a response carries its durations: a sequence of rows of travel     *)
(* times in seconds, NaNCell standing for a NaN entry.  A matrix is a      *)
(* function from 0-based row indices to functions from 0-based column      *)
(* indices, as the array matrix[i][j] of the code.                         *)
(***************************************************************************)
NaNCell == -1

CellKind(v) == IF v = NaNCell THEN "nan" ELSE IF v = 0 THEN "zero" ELSE "pos"

\* the travel time the provider's table s gives from coordinate x to y
Travel(s, x, y) == IF x = y THEN 0 ELSE 1 + ((s + 3 * x + 5 * y) % 7)

Body(rows) == [transport |-> "ok", code |-> "Ok", durations |-> rows]

\* what the provider may answer to a request for the coordinates cs: no
\* answer in time, the travel times of one of its tables, a matrix with a NaN
\* entry, a matrix with a non-zero time from the last coordinate to itself,
\* a matrix of zeros
ValueResponses(cs) ==
    LET m == Len(cs)
        rows(f(_, _)) == [a \in 1..m |-> [b \in 1..m |-> f(a, b)]]
    IN {[transport |-> "timeout", code |-> "", durations |-> << >>]}
       \cup {Body(rows(LAMBDA a, b : Travel(s, cs[a], cs[b]))) : s \in 0..MaxSeed}
       \cup {Body(rows(LAMBDA a, b : IF a = 1 /\ b = 2 THEN NaNCell
                                     ELSE Travel(0, cs[a], cs[b]))),
             Body(rows(LAMBDA a, b : IF a = m /\ b = m THEN 1
                                     ELSE Travel(0, cs[a], cs[b]))),
             Body(rows(LAMBDA a, b : 0))}

\* what get_distance_matrix inspects of a response (lines 124-166)
Describe(v) ==
    LET rows == v.durations
        lens == {Len(rows[a]) : a \in 1..Len(rows)}
    IN [transport |-> v.transport, code |-> v.code,
        nrows |-> Len(rows),
        ncols |-> IF lens = {} THEN 0 ELSE CHOOSE l \in lens : \A k \in lens : k <= l,
        ragged |-> Cardinality(lens) > 1,
        cells |-> {CellKind(rows[a][b]) : a \in 1..Len(rows), b \in 1..Len(rows)}]

\* np.array(durations): the matrix of a response that passed the checks
AsMatrix(rows) ==
    [a \in 0..(Len(rows) - 1) |-> [b \in 0..(Len(rows) - 1) |-> rows[a + 1][b + 1]]]

\* get_distance_matrix with the matrix it returns (line 169)
get_distance_matrix_values(cs, v) ==
    IF IsNone(get_distance_matrix(Len(cs), CoordsValid(Tail(cs)), Describe(v)))
    THEN None
    ELSE Some(AsMatrix(v.durations))

\* line 207
all_coords(n_orders) == [a \in 1..(n_orders + 1) |-> a - 1]

\* line 224
num_chunks(n_orders) == (n_orders + chunk_size - 1) \div chunk_size

\* line 228 with chunks that share an order with their neighbour
start_idx_Overlap(chunk_idx) == chunk_idx * (chunk_size - 1)

\* lines 228-229: orders start_idx .. end_idx - 1 are coordinates start_idx + 1 .. end_idx
start_idx(chunk_idx) == chunk_idx * chunk_size
end_idx(chunk_idx, n_orders) == Min(start_idx(chunk_idx) + chunk_size, n_orders)

\* lines 232-233
chunk_coords(chunk_idx, n_orders) ==
    <<0>> \o [a \in 1..(end_idx(chunk_idx, n_orders) - start_idx(chunk_idx)) |->
                 start_idx(chunk_idx) + a]

\* line 221
Zeros(n_total) == [a \in 0..(n_total - 1) |-> [b \in 0..(n_total - 1) |-> 0]]

\* lines 244-252: the chunk's results placed into the full matrix
PlaceChunk(full_matrix, chunk_idx, n_orders, chunk_matrix) ==
    LET s0 == start_idx(chunk_idx)
        InChunk(i) == s0 + 1 <= i /\ i <= end_idx(chunk_idx, n_orders)
    IN [a \in DOMAIN full_matrix |-> [b \in DOMAIN full_matrix[a] |->
           IF a = 0 /\ InChunk(b) THEN chunk_matrix[0][b - s0]
           ELSE IF InChunk(a) /\ b = 0 THEN chunk_matrix[a - s0][0]
           ELSE IF InChunk(a) /\ InChunk(b) THEN chunk_matrix[a - s0][b - s0]
           ELSE full_matrix[a][b]]]

\* lines 257-262: the coordinates range(start, end) of a chunk
InRange(i, chunk_idx, n_total) ==
    /\ chunk_idx * chunk_size + 1 <= i
    /\ i < Min(chunk_idx * chunk_size + 1 + chunk_size, n_total)

\* lines 268-269 with the two depot legs taken in the same direction
CrossChunkEntry_Outbound(full_matrix, i, j) ==
    full_matrix[0][i] + full_matrix[0][j]

\* lines 268-269
CrossChunkEntry(full_matrix, i, j) ==
    full_matrix[i][0] + full_matrix[0][j]

\* lines 254-269: the entries between orders of different chunks
CrossChunkFill(full_matrix, n_orders) ==
    LET n_total == n_orders + 1
        Crosses(i, j) ==
            \E c1 \in 0..(num_chunks(n_orders) - 1) :
               \E c2 \in (c1 + 1)..(num_chunks(n_orders) - 1) :
                  \/ InRange(i, c1, n_total) /\ InRange(j, c2, n_total)
                  \/ InRange(j, c1, n_total) /\ InRange(i, c2, n_total)
    IN [a \in DOMAIN full_matrix |-> [b \in DOMAIN full_matrix[a] |->
           IF Crosses(a, b) THEN CrossChunkEntry(full_matrix, a, b)
           ELSE full_matrix[a][b]]]

\* line 272: full_matrix[full_matrix > 0].min() raises on an empty selection
HasPositiveEntry(full_matrix) ==
    \E a \in DOMAIN full_matrix : \E b \in DOMAIN full_matrix[a] : full_matrix[a][b] > 0

Returned(m) == [raised |-> FALSE, matrix |-> m]
RaisedValueError == [raised |-> TRUE, matrix |-> None]

CallRecord(cs, v, m) == [coords |-> cs, body |-> v.durations, ok |-> ~IsNone(m)]

AssembleInit ==
    /\ k_pc = "start"
    /\ k_entry \in {"endpoint", "chunked"}
    /\ k_n \in 1..MaxAssembleOrders
    /\ k_chunk_idx = 0 /\ k_full = None /\ k_calls = << >> /\ k_out = None
    /\ in_flight = << >>
    /\ RunIdle /\ SolveIdle /\ SizeIdle /\ MatrixIdle /\ PlanIdle /\ ClusterIdle

\* endpoint lines 229-242 and mapbox_service.py lines 205-225: one call for
\* the whole set, or the chunked approach
AssembleStart ==
    /\ k_pc = "start"
    /\ IF (k_entry = "endpoint" /\ k_n <= SingleCallMaxOrders)
          \/ (k_entry = "chunked" /\ k_n + 1 <= MatrixCoordLimit)
       THEN /\ k_pc' = "single"
            /\ UNCHANGED k_full
       ELSE /\ k_pc' = "chunk"
            /\ k_full' = Some(Zeros(k_n + 1))
    /\ k_chunk_idx' = 0
    /\ UNCHANGED <<k_entry, k_n, k_calls, k_out, in_flight>>
    /\ UNCHANGED <<run_vars, solve_vars, size_vars, matrix_vars, plan_vars, cluster_vars>>

\* endpoint lines 232-233, mapbox_service.py line 214
SingleCall ==
    /\ k_pc = "single"
    /\ in_flight' = Send("full", Tail(all_coords(k_n)))
    /\ k_pc' = "single_wait"
    /\ UNCHANGED <<k_entry, k_n, k_chunk_idx, k_full, k_calls, k_out>>
    /\ UNCHANGED <<run_vars, solve_vars, size_vars, matrix_vars, plan_vars, cluster_vars>>

SingleReturn ==
    /\ k_pc = "single_wait"
    /\ in_flight' = Answered("full", Tail(all_coords(k_n)))
    /\ \E v \in ValueResponses(all_coords(k_n)) :
          LET m == get_distance_matrix_values(all_coords(k_n), v)
          IN /\ k_calls' = Append(k_calls, CallRecord(all_coords(k_n), v, m))
             /\ k_out' = Some(Returned(m))
    /\ k_pc' = "done"
    /\ UNCHANGED <<k_entry, k_n, k_chunk_idx, k_full>>
    /\ UNCHANGED <<run_vars, solve_vars, size_vars, matrix_vars, plan_vars, cluster_vars>>

\* lines 227-238: a pass of the chunk loop calls get_distance_matrix
ChunkCall ==
    /\ k_pc = "chunk"
    /\ k_chunk_idx < num_chunks(k_n)
    /\ in_flight' = Send("chunk", Tail(chunk_coords(k_chunk_idx, k_n)))
    /\ k_pc' = "chunk_wait"
    /\ UNCHANGED <<k_entry, k_n, k_chunk_idx, k_full, k_calls, k_out>>
    /\ UNCHANGED <<run_vars, solve_vars, size_vars, matrix_vars, plan_vars, cluster_vars>>

\* lines 238-252: the call returns; the chunk is placed or the request fails
ChunkReturn ==
    /\ k_pc = "chunk_wait"
    /\ in_flight' = Answered("chunk", Tail(chunk_coords(k_chunk_idx, k_n)))
    /\ \E v \in ValueResponses(chunk_coords(k_chunk_idx, k_n)) :
          LET cs == chunk_coords(k_chunk_idx, k_n)
              chunk_matrix == get_distance_matrix_values(cs, v)
          IN /\ k_calls' = Append(k_calls, CallRecord(cs, v, chunk_matrix))
             /\ IF IsNone(chunk_matrix)
                THEN /\ k_out' = Some(Returned(None))
                     /\ k_pc' = "done"
                     /\ UNCHANGED <<k_full, k_chunk_idx>>
                ELSE /\ k_full' = Some(PlaceChunk(Val(k_full), k_chunk_idx, k_n,
                                                  Val(chunk_matrix)))
                     /\ k_chunk_idx' = k_chunk_idx + 1
                     /\ k_pc' = IF k_chunk_idx + 1 < num_chunks(k_n) THEN "chunk" ELSE "fill"
                     /\ UNCHANGED k_out
    /\ UNCHANGED <<k_entry, k_n>>
    /\ UNCHANGED <<run_vars, solve_vars, size_vars, matrix_vars, plan_vars, cluster_vars>>

\* lines 254-274: the cross-chunk entries, the summary line, the return
AssembleEnd ==
    /\ k_pc = "fill"
    /\ LET full_matrix == CrossChunkFill(Val(k_full), k_n)
       IN /\ k_full' = Some(full_matrix)
          /\ k_out' = IF HasPositiveEntry(full_matrix)
                      THEN Some(Returned(Some(full_matrix)))
                      ELSE Some(RaisedValueError)
    /\ k_pc' = "done"
    /\ UNCHANGED <<k_entry, k_n, k_chunk_idx, k_calls, in_flight>>
    /\ UNCHANGED <<run_vars, solve_vars, size_vars, matrix_vars, plan_vars, cluster_vars>>

AssembleNext ==
    \/ AssembleStart
    \/ SingleCall
    \/ SingleReturn
    \/ ChunkCall
    \/ ChunkReturn
    \/ AssembleEnd

AssembleSpec == AssembleInit /\ [][AssembleNext]_vars

\* the provider calls of a run and of a full matrix request
SeqInit == Init \/ AssembleInit

SeqNext == Next \/ AssembleNext

SeqSpec == SeqInit /\ [][SeqNext]_vars

(***************************************************************************)
(* One call of RouteOptimizationService.optimize_routes                    *)
(* (route_optimization_service.py 24-264)                                  *)
(*                                                                         *)
(* A matrix entry is a number of tenths of a second, the resolution of the *)
(* provider's durations; an arc cost is a whole number, as the routing     *)
(* library requires.  Node 0 is the depot, node i is order i - 1 of the    *)
(* code's 0-based order lists; label sequences are 1-based, so that        *)
(* labels[i] is cluster_labels[i - 1].                                     *)
(*                                                                         *)
(* The routing library numbers its variables as the index manager of line  *)
(* 71 does for one depot: index i is node i for the orders, index 0 starts *)
(* vehicle 0, the indices after the orders start the other vehicles and    *)
(* the last num_vehicles indices end the routes.                           *)
(***************************************************************************)
TenthsPerSecond == 10

\* int(x) of line 86: the whole seconds of x tenths, truncated towards zero
IntOf(x) == IF x >= 0 THEN x \div TenthsPerSecond ELSE -((-x) \div TenthsPerSecond)

\* lines 89-96 charging every arc between two orders
PenaltyApplies_AnyOrders(labels, from_node, to_node) ==
    ~IsNone(labels) /\ from_node > 0 /\ to_node > 0

\* lines 89-95
PenaltyApplies(labels, from_node, to_node) ==
    /\ ~IsNone(labels) /\ from_node > 0 /\ to_node > 0
    /\ LET from_cluster == Val(labels)[from_node]
           to_cluster == Val(labels)[to_node]
       IN from_cluster # to_cluster /\ from_cluster >= 0 /\ to_cluster >= 0

\* lines 81-98
distance_callback(matrix, labels, from_node, to_node) ==
    LET base_distance == IntOf(matrix[from_node][to_node])
    IN IF PenaltyApplies(labels, from_node, to_node)
       THEN base_distance + CLUSTER_PENALTY
       ELSE base_distance

\* the matrices a call is made with
SolveMatrices(n) ==
    {[a \in 0..n |-> [b \in 0..n |->
         IF a = b THEN 0
         ELSE TenthsPerSecond * Travel(s, a, b) + (IF (a + b + s) % 2 = 0 THEN 0 ELSE 5)]] :
      s \in {0, 1}}

SolveLabels(n) == {None} \cup {Some(l) : l \in [1..n -> {-1, 0, 1}]}

\* the indices of the routing model for num_orders orders and nv vehicles
Start(vehicle_id, num_orders) == IF vehicle_id = 0 THEN 0 ELSE num_orders + vehicle_id
End(vehicle_id, num_orders, nv) == num_orders + nv + vehicle_id
IsEnd(index, num_orders, nv) == index >= num_orders + nv
IndexToNode(index, num_orders) == IF 1 <= index /\ index <= num_orders THEN index ELSE 0

\* the sequences that list every element of S once
Orderings(S) ==
    {p \in [1..Cardinality(S) -> S] : \A a, b \in 1..Cardinality(S) : p[a] = p[b] => a = b}

\* the successor of every index when vehicle v serves path[v] and the orders
\* of `inactive` are served by nobody: an order left out is its own successor
NextVars(path, inactive, num_orders, nv) ==
    LET After(v, k) == IF k < Len(path[v]) THEN path[v][k + 1]
                       ELSE End(v, num_orders, nv)
    IN [index \in 0..(num_orders + nv - 1) |->
          IF index \in inactive THEN index
          ELSE IF \E v \in 0..(nv - 1) : index = Start(v, num_orders)
          THEN After(CHOOSE v \in 0..(nv - 1) : index = Start(v, num_orders), 0)
          ELSE LET v == CHOOSE w \in 0..(nv - 1) : index \in Range(path[w])
                   k == CHOOSE j \in 1..Len(path[v]) : path[v][j] = index
               IN After(v, k)]

\* the assignments the search may return: every order is on the route of
\* one vehicle or left out
Solutions(num_orders, nv) ==
    {NextVars([v \in 0..(nv - 1) |-> SelectSeq(p, LAMBDA o : veh[o] = v)],
              (1..num_orders) \ active, num_orders, nv) :
        <<active, p, veh>> \in
            UNION {UNION {{<<act, q, w>> : w \in [act -> 0..(nv - 1)]} : q \in Orderings(act)} :
                      act \in SUBSET (1..num_orders)}}

\* lines 245-255
SolverStatus(status) ==
    IF status = 1 THEN "SUCCESS"
    ELSE IF status = 2 THEN "PARTIAL_SUCCESS"
    ELSE IF status \in {3, 4} THEN "FAILED"
    ELSE IF status = 0 THEN "NOT_SOLVED"
    ELSE "UNKNOWN"

\* lines 201-217: the walk of one vehicle's route from `index` on
RECURSIVE WalkRoute(_, _, _, _, _, _)
WalkRoute(next, arc, index, num_orders, nv, acc) ==
    IF IsEnd(index, num_orders, nv) THEN acc
    ELSE LET node_index == IndexToNode(index, num_orders)
             route_stops == IF node_index > 0
                            THEN Append(acc.stops,
                                        [order_index |-> node_index - 1,
                                         sequence |-> Len(acc.stops)])
                            ELSE acc.stops
             previous_index == index
             following == next[index]
         IN WalkRoute(next, arc, following, num_orders, nv,
                      [stops |-> route_stops,
                       distance |-> acc.distance
                           + arc[IndexToNode(previous_index, num_orders)]
                                [IndexToNode(following, num_orders)]])

\* lines 192-193 and 221-223 in hundredths of a second: the route's cost
\* taken for metres at avg_speed_kmh, plus the service time of its stops
RouteTime(route_distance, stops) ==
    (route_distance * 360000) \div (avg_speed_kmh * 1000)
    + Len(stops) * SERVICE_TIME_PER_STOP * 100

\* lines 196-235: the routes of the vehicles that have stops
RECURSIVE ExtractRoutes(_, _, _, _, _)
ExtractRoutes(next, arc, vehicle_id, num_orders, nv) ==
    IF vehicle_id >= nv THEN << >>
    ELSE LET walked == WalkRoute(next, arc, Start(vehicle_id, num_orders), num_orders, nv,
                                 [stops |-> << >>, distance |-> 0])
         IN (IF walked.stops # << >>
             THEN <<[vehicle_id |-> vehicle_id, stops |-> walked.stops,
                     total_distance |-> walked.distance,
                     total_time |-> RouteTime(walked.distance, walked.stops),
                     num_orders |-> Len(walked.stops)]>>
             ELSE << >>)
            \o ExtractRoutes(next, arc, vehicle_id + 1, num_orders, nv)

\* line 240 never finding an order left out
IsUnassigned_Never(next, node_idx) == FALSE

\* line 240
IsUnassigned(next, node_idx) == next[node_idx] = node_idx

RECURSIVE SumDistance(_)
SumDistance(routes) ==
    IF routes = << >> THEN 0 ELSE Head(routes).total_distance + SumDistance(Tail(routes))

RECURSIVE SumTime(_)
SumTime(routes) ==
    IF routes = << >> THEN 0 ELSE Head(routes).total_time + SumTime(Tail(routes))

\* lines 185-264
extract_solution(next, arc, status, num_orders, nv) ==
    LET routes == ExtractRoutes(next, arc, 0, num_orders, nv)
    IN [routes |-> routes,
        total_distance |-> SumDistance(routes),
        total_time |-> SumTime(routes),
        solver_status |-> SolverStatus(status),
        num_vehicles_used |-> Len(routes),
        unassigned |-> SelectSeq(Indices(num_orders),
                                 LAMBDA order_idx : IsUnassigned(next, order_idx + 1))]

NumOrders == Cardinality(DOMAIN s_matrix) - 1

SolveInit ==
    /\ s_pc = "start"
    /\ \E n \in 0..MaxSolveOrders :
          /\ s_matrix \in SolveMatrices(n)
          /\ s_labels \in SolveLabels(n)
    /\ s_vehicles \in 1..MaxSolveVehicles
    /\ s_arc = None /\ s_solution = None /\ s_result = None
    /\ RunIdle /\ MatrixIdle /\ PlanIdle /\ ClusterIdle /\ AssembleIdle /\ SizeIdle
    /\ in_flight = << >>

\* lines 57-103: no orders, or the model with distance_callback as arc cost
SolveStart ==
    /\ s_pc = "start"
    /\ IF NumOrders = 0
       THEN /\ s_result' = Some([routes |-> << >>, total_distance |-> 0, total_time |-> 0,
                                 solver_status |-> "SUCCESS", num_vehicles_used |-> 0,
                                 unassigned |-> << >>])
            /\ s_pc' = "done"
            /\ UNCHANGED s_arc
       ELSE /\ s_arc' = Some([a \in 0..NumOrders |-> [b \in 0..NumOrders |->
                                 distance_callback(s_matrix, s_labels, a, b)]])
            /\ s_pc' = "search"
            /\ UNCHANGED s_result
    /\ UNCHANGED <<s_matrix, s_labels, s_vehicles, s_solution>>
    /\ UNCHANGED <<run_vars, matrix_vars, plan_vars, cluster_vars, assemble_vars,
                   size_vars, in_flight>>

\* lines 157-173: the search returns an assignment or nothing
Search ==
    /\ s_pc = "search"
    /\ \/ /\ \E next \in Solutions(NumOrders, s_vehicles), status \in {1, 2} :
                s_solution' = Some([next |-> next, status |-> status])
          /\ s_pc' = "extract"
          /\ UNCHANGED s_result
       \/ /\ s_result' = Some([routes |-> << >>, total_distance |-> 0, total_time |-> 0,
                               solver_status |-> "FAILED", num_vehicles_used |-> 0,
                               unassigned |-> Indices(NumOrders)])
          /\ s_pc' = "done"
          /\ UNCHANGED s_solution
    /\ UNCHANGED <<s_matrix, s_labels, s_vehicles, s_arc>>
    /\ UNCHANGED <<run_vars, matrix_vars, plan_vars, cluster_vars, assemble_vars,
                   size_vars, in_flight>>

\* lines 160-163 and 185-264
Extract ==
    /\ s_pc = "extract"
    /\ s_result' = Some(extract_solution(Val(s_solution).next, Val(s_arc),
                                         Val(s_solution).status, NumOrders, s_vehicles))
    /\ s_pc' = "done"
    /\ UNCHANGED <<s_matrix, s_labels, s_vehicles, s_arc, s_solution>>
    /\ UNCHANGED <<run_vars, matrix_vars, plan_vars, cluster_vars, assemble_vars,
                   size_vars, in_flight>>

SolveNext ==
    \/ SolveStart
    \/ Search
    \/ Extract

SolveSpec == SolveInit /\ [][SolveNext]_vars

(***************************************************************************)
(* The minimum cluster size of one clustering request: what the endpoint   *)
(* passes to cluster_orders (route_optimization.py 141-155) and what       *)
(* cluster_orders builds HDBSCAN with (clustering_service.py 73-116)       *)
(***************************************************************************)
\* route_optimization.py line 144
endpoint_min_cluster_size(n, hint) == Min(hint, Max(3, n \div 30))

SizeInit ==
    /\ z_pc = "endpoint"
    /\ z_n \in 0..MaxSizeOrders
    /\ z_hint \in 2..MaxHint                         \* Field(default=5, ge=2)
    /\ z_arg = None /\ z_used = None
    /\ RunIdle /\ MatrixIdle /\ PlanIdle /\ ClusterIdle /\ AssembleIdle /\ SolveIdle
    /\ in_flight = << >>

\* route_optimization.py lines 141-155, request.use_clustering being set
EndpointSize ==
    /\ z_pc = "endpoint"
    /\ IF z_n >= z_hint
       THEN /\ z_arg' = Some(endpoint_min_cluster_size(z_n, z_hint))
            /\ z_pc' = "service"
       ELSE /\ z_arg' = None
            /\ z_pc' = "done"
    /\ UNCHANGED <<z_n, z_hint, z_used>>
    /\ UNCHANGED <<run_vars, matrix_vars, plan_vars, cluster_vars, assemble_vars,
                   solve_vars, in_flight>>

\* clustering_service.py lines 76-116 with adaptive_clustering = True
ServiceSize ==
    /\ z_pc = "service"
    /\ LET coordinates == [i \in 1..z_n |-> 0]
       IN z_used' = IF TooFewPoints(coordinates, Val(z_arg)) THEN None
                    ELSE Some(hdbscan_min_cluster_size(coordinates, Val(z_arg)))
    /\ z_pc' = "done"
    /\ UNCHANGED <<z_n, z_hint, z_arg>>
    /\ UNCHANGED <<run_vars, matrix_vars, plan_vars, cluster_vars, assemble_vars,
                   solve_vars, in_flight>>

SizeNext ==
    \/ EndpointSize
    \/ ServiceSize

SizeSpec == SizeInit /\ [][SizeNext]_vars

(***************************************************************************)
(* Properties                                                              *)
(***************************************************************************)
Done == pc = "done"
FoundOrders == calls[1].orders          \* the orders of the first full request
HttpCalls == {i \in 1..Len(calls) : calls[i].http}
Failed(i) == ~calls[i].ok

\* every call containing order b failed, every call without it succeeded
OnlyFails(b) ==
    /\ calls # << >>
    /\ b \in Range(FoundOrders)
    /\ \A i \in 1..Len(calls) : Failed(i) <=> b \in Range(calls[i].orders)

\* C1: when exactly one order makes every call containing it fail and the run
\* returns a successful result, exactly that order was excluded, the solver ran on the
\* remaining orders, and the result's metadata lists exactly that order id as
\* excluded.
C1_ExcludedOrderListed ==
    \A b \in 1..MaxOrders :
        (Done /\ OnlyFails(b) /\ Len(FoundOrders) >= 2 /\ ~IsNone(result)
              /\ Val(result).success)
        => /\ excluded_orders = <<b>>
           /\ Len(solver_calls) = 1
           /\ solver_calls[1].order_ids = Without(FoundOrders, {b})
           /\ "excluded_orders" \in DOMAIN Val(result).metadata
           /\ Val(result).metadata["excluded_orders"] = <<b>>

\* C2: a run with at least one order in which every provider call failed
\* returns a result with success = false, no routes and NO_VALID_ORDERS, and
\* raises nothing.
C2_AllUnroutableIsStructured ==
    (Done /\ calls # << >> /\ \A i \in 1..Len(calls) : Failed(i))
    => /\ IsNone(http_error)
       /\ ~IsNone(result)
       /\ Val(result).success = FALSE
       /\ Val(result).routes = << >>
       /\ Val(result).solver_status = "NO_VALID_ORDERS"

\* the retry budget is used up: the retried request failed again, or the
\* probe round found no failing order
RetriedRequestFailed ==
    /\ calls # << >>
    /\ calls[Len(calls)].kind = "full"
    /\ calls[Len(calls)].attempt = max_retries - 1
    /\ Failed(Len(calls))
ProbesFoundNothing ==
    /\ calls # << >>
    /\ calls[Len(calls)].kind = "probe"
    /\ excluded_orders = << >>
BudgetExhausted == Done /\ (RetriedRequestFailed \/ ProbesFoundNothing)

\* C3: when the retry budget is exhausted the run returns a failure result
\* that carries the excluded orders, and raises nothing.
C3_ExhaustedIsStructured ==
    BudgetExhausted
    => /\ IsNone(http_error)
       /\ ~IsNone(result)
       /\ Val(result).success = FALSE
       /\ Val(result).unassigned_orders = excluded_orders

\* the body of the response is a matrix the claim calls invalid
HasPayload(r) == r.transport = "ok" /\ r.code = "Ok" /\ r.nrows >= 1 /\ r.ncols >= 1
NotFinite(r) == r.cells \cap {"nan", "inf", "null"} # {}
WrongShape(n, r) == r.nrows # n \/ r.ncols # n \/ r.ragged
AllZero(r) == r.cells = {"zero"}

C5_VehicleCountWithinCeiling ==
    \A i \in 1..Len(solver_calls) :
        /\ 1 <= solver_calls[i].num_vehicles
        /\ solver_calls[i].num_vehicles <= AvailableDrivers

\* the label the clustering gave to each order now in `orders` (an order's id
\* is its position in the list that was clustered)
RoutedLabels == [j \in 1..Len(orders) |-> Val(cluster_labels)[orders[j]]]

\* C6 as stated: with a cluster assignment in effect when the vehicles are
\* planned, the count is min(ceiling, sum over the clusters of the orders
\* being routed of ceil(size / 15)).
C6_ClusteredVehicleCount ==
    (~IsNone(num_vehicles) /\ ~IsNone(cluster_labels))
    => Val(num_vehicles) =
          Min(AvailableDrivers,
              SumOver(Range(RoutedLabels),
                      [c \in Range(RoutedLabels) |->
                          CeilDiv(ClusterSize(RoutedLabels, c), driver_capacity)]))

C8_NonPositiveCountRejected ==
    (~IsNone(num_vehicles) /\ Val(num_vehicles) <= 0)
    => /\ Done
       /\ http_error = Some(HTTP_400)
       /\ IsNone(result)
       /\ solver_calls = << >>

C8_Witness ==
    /\ Done /\ ~IsNone(num_vehicles) /\ Val(num_vehicles) <= 0
    /\ http_error = Some(HTTP_400)
    /\ calls # << >>

ReturnedNoOrders == ~IsNone(result) /\ Val(result).solver_status = "NO_ORDERS"
DepotCoordsInvalid == ~IsNone(depot) /\ ~Val(depot).coords_valid
RejectedVehicleCount == http_error = Some(HTTP_400) /\ ~IsNone(num_vehicles)

\* C9 as stated: a run that ends on a validation failure (empty order list,
\* non-positive vehicle count, invalid coordinates) has sent no request to the
\* travel-time provider.
C9_ValidationBeforeProviderCalls ==
    (Done /\ (ReturnedNoOrders \/ http_error = Some(HTTP_400)))
    => HttpCalls = {}

\* C9 amended: an empty order list and invalid depot coordinates end the run
\* before any get_distance_matrix call; a request is never sent with an order
\* whose coordinate is out of range; a non-positive vehicle count is rejected
\* after the matrix has been obtained and before any solver call.
C9_ValidationOrder ==
    /\ ReturnedNoOrders => calls = << >>
    /\ DepotCoordsInvalid => calls = << >>
    /\ (http_error = Some(HTTP_400) /\ IsNone(num_vehicles)) => DepotCoordsInvalid
    /\ \A i \in 1..Len(calls) :
          calls[i].http => Range(calls[i].orders) \cap invalid_coords = {}
    /\ RejectedVehicleCount
       => /\ Val(num_vehicles) <= 0
          /\ solver_calls = << >>
          /\ calls # << >> /\ calls[Len(calls)].ok

C9_Witness ==
    /\ Done /\ RejectedVehicleCount
    /\ HttpCalls # {} /\ invalid_coords # {}
    /\ solver_calls = << >>

\* C10: when no order is found the run returns success = true, no routes,
\* total_routes = 0, total_orders = 0 and NO_ORDERS, and has called neither
\* the clustering, nor the travel-time provider, nor the solver.
C10_NoOrders ==
    (~IsNone(depot) /\ pc \notin {"get_depot", "get_orders"} /\ orders = << >>)
    => /\ Done
       /\ IsNone(http_error)
       /\ ~IsNone(result)
       /\ Val(result).success = TRUE
       /\ Val(result).routes = << >>
       /\ Val(result).total_routes = 0
       /\ Val(result).total_orders = 0
       /\ Val(result).solver_status = "NO_ORDERS"
       /\ clustering_calls = 0 /\ calls = << >> /\ solver_calls = << >>

C10_Witness ==
    /\ Done /\ ~IsNone(depot) /\ orders = << >>
    /\ ~IsNone(result) /\ Val(result).solver_status = "NO_ORDERS"
    /\ Val(result).success

\* C11: every assignment cluster_orders returns has one label per input
\* point and every label is >= 0, also when the base algorithm marks every
\* point as an outlier.
C11_NoNoiseLabelSurvives ==
    (c_pc = "returned" /\ ~Val(c_out).raised)
    => /\ Len(Val(c_out).labels) = Len(c_coords)
       /\ \A i \in 1..Len(c_coords) : Val(c_out).labels[i] >= 0
       /\ (\A i \in 1..Len(c_coords) : Val(c_out).original_labels[i] = -1)
          => \A i \in 1..Len(c_coords) : Val(c_out).labels[i] = 0

\* outliers were reassigned and the merge step relabelled a cluster
C11_Witness ==
    /\ c_pc = "returned" /\ ~Val(c_out).raised
    /\ Val(c_out).outlier_count > 0
    /\ Cardinality(Clusters(Val(c_out).original_labels)) >= 2
    /\ Val(c_out).n_clusters = 1
    /\ \A i \in 1..Len(c_coords) : Val(c_out).labels[i] >= 0

\* C12 as stated: a second application of merge_nearby_small_clusters, to the
\* labels and centroids of a first one, leaves the labels unchanged.
C12_MergeIdempotent ==
    c_pc = "remerged" => Val(c_again).labels = Val(c_merged).labels

\* C13: on a point set with fewer points than min_cluster_size, cluster_orders
\* returns exactly one cluster, id 0, holding every point, outlier_count 0.
C13_SmallSetIsOneCluster ==
    (c_pc = "returned" /\ c_hdbscan /\ Len(c_coords) < c_min)
    => /\ ~Val(c_out).raised
       /\ Val(c_out).labels = [i \in 1..Len(c_coords) |-> 0]
       /\ Val(c_out).n_clusters = 1
       /\ DOMAIN Val(c_out).centroids = {0}
       /\ Val(c_out).centroids[0] = Mean(c_coords, 1..Len(c_coords))
       /\ Val(c_out).outlier_count = 0

C13_Witness ==
    /\ c_pc = "returned" /\ c_hdbscan
    /\ Len(c_coords) = 4 /\ c_min = 5
    /\ c_coords[1] # c_coords[4]
    /\ Val(c_out).n_clusters = 1 /\ Val(c_out).outlier_count = 0

\* C14: once a clustering call of the run has failed, the run goes on
\* without a cluster assignment: the labels are null from then on, no error
\* is raised by the clustering step, the solver gets no labels, the vehicles
\* are planned by the no-clustering rule and the result reports
\* used_clustering = false.
C14_ClusteringFailureDegrades ==
    clustering_errors > 0
    => /\ IsNone(cluster_labels)
       /\ pc = "matrix_setup" => IsNone(http_error) /\ IsNone(result)
       /\ \A i \in 1..Len(solver_calls) : IsNone(solver_calls[i].cluster_labels)
       /\ ~IsNone(num_vehicles)
          => Val(num_vehicles) =
                IF ~IsNone(ReqNumVehicles) /\ Val(ReqNumVehicles) # 0
                THEN Val(ReqNumVehicles)
                ELSE Min(AvailableDrivers, Max(1, Len(orders) \div flat_capacity))
       /\ ~IsNone(result) => Val(result).used_clustering = FALSE

C14_Witness ==
    /\ Done /\ clustering_errors > 0 /\ clustering_calls > 0
    /\ UseClustering
    /\ ~IsNone(result) /\ Val(result).success
    /\ Val(result).used_clustering = FALSE
    /\ IsNone(ReqNumVehicles)

\* C17: when the search finds no solution, optimize_routes returns FAILED,
\* no routes and every order index as unassigned, and the endpoint returns
\* a result with success = false and raises nothing.
C17_NoSolutionIsFailedResult ==
    (~IsNone(optimization_result) /\ ~Val(optimization_result).solved)
    => /\ Val(optimization_result).solver_status = "FAILED"
       /\ Val(optimization_result).routes = << >>
       /\ Val(optimization_result).unassigned = [i \in 1..Len(orders) |-> i - 1]
       /\ IsNone(http_error)
       /\ Done => /\ ~IsNone(result)
                  /\ Val(result).success = FALSE
                  /\ Val(result).routes = << >>
                  /\ Val(result).total_routes = 0
                  /\ Val(result).solver_status = "FAILED"
                  /\ Val(result).unassigned_orders = order_ids_list

C17_Witness ==
    /\ Done /\ ~IsNone(optimization_result) /\ ~Val(optimization_result).solved
    /\ Len(orders) >= 2
    /\ ~IsNone(result) /\ Val(result).success = FALSE
    /\ Val(result).solver_status = "FAILED"

\* the matrix returned by the chunked approach, if one was returned
ChunkedMatrixReturned ==
    /\ k_pc = "done" /\ k_n + 1 > MatrixCoordLimit
    /\ ~IsNone(k_out) /\ ~Val(k_out).raised /\ ~IsNone(Val(k_out).matrix)

\* the chunk of order i (coordinate i of the full request) and its index
\* among the coordinates of that chunk's call
ChunkOf(i) == (i - 1) \div chunk_size
LocalIdx(i) == i - ChunkOf(i) * chunk_size

\* the time the call of chunk c answered from its coordinate a to b
ChunkAnswer(c, a, b) == k_calls[c + 1].body[a + 1][b + 1]

\* C15: in the matrix assembled from chunks, the entry of two orders of one
\* chunk is the entry that chunk's call returned for the pair, and the entry
\* of orders i and j of different chunks is time(i, depot) + time(depot, j),
\* in both directions.
C15_ChunkedEntries ==
    ChunkedMatrixReturned =>
        \A i, j \in 1..k_n :
           Val(Val(k_out).matrix)[i][j] =
              IF ChunkOf(i) = ChunkOf(j)
              THEN ChunkAnswer(ChunkOf(i), LocalIdx(i), LocalIdx(j))
              ELSE ChunkAnswer(ChunkOf(i), LocalIdx(i), 0)
                   + ChunkAnswer(ChunkOf(j), 0, LocalIdx(j))

C15_Witness ==
    /\ ChunkedMatrixReturned /\ k_n = 30  \* 24 orders and 6
    /\ Len(k_calls) = num_chunks(k_n)
    /\ \E i, j \in 1..k_n :
          /\ ChunkOf(i) # ChunkOf(j)
          /\ Val(Val(k_out).matrix)[i][j] # Val(Val(k_out).matrix)[j][i]

\* a matrix was returned to the endpoint, which hands it to the solver
MatrixReturned ==
    /\ k_pc = "done"
    /\ ~IsNone(k_out) /\ ~Val(k_out).raised /\ ~IsNone(Val(k_out).matrix)

\* C16: every matrix handed to the solver, from a single call or assembled
\* from chunks, is square of size n + 1, has a zero diagonal and holds no
\* NaN entry.
C16_MatrixWellFormed ==
    MatrixReturned =>
        LET handed == Val(Val(k_out).matrix)
        IN /\ DOMAIN handed = 0..k_n
           /\ \A i \in 0..k_n : DOMAIN handed[i] = 0..k_n
           /\ \A i \in 0..k_n : handed[i][i] = 0
           /\ \A i, j \in 0..k_n : handed[i][j] # NaNCell

\* the calls of get_distance_matrix on the depot and every candidate order
FullCalls == {c \in 1..Len(calls) : calls[c].kind = "full"}

\* the first full request failed with more than one candidate order
FirstAttemptFailed ==
    /\ Len(calls) >= 1
    /\ calls[1].kind = "full" /\ ~calls[1].ok /\ Len(calls[1].orders) > 1

\* the candidates of the first attempt whose probes succeeded
ProbedOk ==
    LET candidates == calls[1].orders
    IN SelectSeq(candidates,
                 LAMBDA o : \E c \in 2..Len(calls) :
                               /\ calls[c].kind = "probe" /\ calls[c].ok
                               /\ calls[c].orders = <<o>>)

\* C18: the full matrix request is attempted at most max_retries = 2 times;
\* after a failed first attempt on more than one candidate, the candidates
\* are probed one by one with a call on the depot and that order, an order
\* is excluded exactly when its probe failed, and the second attempt is made
\* on exactly the orders whose probes succeeded.
C18_RetryProtocol ==
    /\ Cardinality(FullCalls) <= 2
    /\ \A c \in 1..Len(calls) : calls[c].kind = "probe" => Len(calls[c].orders) = 1
    /\ FirstAttemptFailed =>
          LET candidates == calls[1].orders
              k == Len(candidates)
          IN /\ \A c \in 2..Min(Len(calls), 1 + k) :
                   /\ calls[c].kind = "probe"
                   /\ calls[c].orders = <<candidates[c - 1]>>
                   /\ ~calls[c].ok <=> candidates[c - 1] \in Range(excluded_orders)
             /\ pc \notin {"probe", "probe_wait"} => Len(calls) >= 1 + k
             /\ \A c \in FullCalls \ {1} :
                   /\ c = 2 + k
                   /\ calls[c].orders = ProbedOk
                   /\ Len(ProbedOk) < k

C18_Witness ==
    /\ FirstAttemptFailed
    /\ Len(calls[1].orders) >= 3
    /\ Cardinality(FullCalls) = 2
    /\ Len(excluded_orders) >= 1
    /\ Len(ProbedOk) >= 2
    /\ Done

\* the orders of the c-th provider call of the request
CallOrders(c) == Tail(k_calls[c].coords)

\* every call so far returned a matrix
NoCallFailed == \A c \in 1..Len(k_calls) : k_calls[c].ok

\* the request is past its last provider call
CallsOver == k_pc \in {"fill", "done"}

\* C19: with 1 + n <= 25 coordinates the request is one provider call on
\* the depot and all n orders; otherwise it is made of ceil(n / 24) chunk
\* calls, the c-th on the depot and the orders 24 (c - 1) + 1 ..
\* min(24 c, n), hence at most 25 coordinates a call and every order in
\* exactly one chunk; the calls stop at the first chunk that fails.
C19_ChunkPlan ==
    IF 1 + k_n <= 25
    THEN /\ Len(k_calls) <= 1
         /\ CallsOver => Len(k_calls) = 1
         /\ \A c \in 1..Len(k_calls) : k_calls[c].coords = [a \in 1..(k_n + 1) |-> a - 1]
    ELSE /\ Len(k_calls) <= CeilDiv(k_n, 24)
         /\ \A c \in 1..Len(k_calls) :
               /\ k_calls[c].coords[1] = 0
               /\ Len(k_calls[c].coords) <= 25
               /\ CallOrders(c) =
                     [a \in 1..(Min(24 * c, k_n) - 24 * (c - 1)) |-> 24 * (c - 1) + a]
         /\ (CallsOver /\ NoCallFailed) =>
               /\ Len(k_calls) = CeilDiv(k_n, 24)
               /\ \A o \in 1..k_n :
                     Cardinality({c \in 1..Len(k_calls) :
                                     o \in Range(CallOrders(c))}) = 1
         /\ \A c \in 1..(Len(k_calls) - 1) : k_calls[c].ok

C19_Witness ==
    /\ k_pc = "done" /\ NoCallFailed
    /\ k_n >= 49
    /\ Len(k_calls) = 3
    /\ Len(CallOrders(3)) < Len(CallOrders(1))

\* the probes whose call returned no matrix
FailedProbes == {c \in 1..Len(calls) : calls[c].kind = "probe" /\ ~calls[c].ok}

\* a full request of the second pass of the retry loop is outstanding
RetryInFlight ==
    /\ pc = "attempt_wait" /\ attempt > 0
    /\ in_flight = <<Request("full", valid_orders)>>

\* C20: the provider calls of a run are made one after another, never two
\* outstanding at once; a probe is the only outstanding call while it runs,
\* its failure is put on exactly the order it contained, and all of that is
\* done before the retry is sent.
C20_CallsSequential ==
    /\ Len(in_flight) <= 1
    /\ pc = "probe_wait" =>
          \A q \in Range(in_flight) : q = Request("probe", <<valid_orders[probe_i]>>)
    /\ k_pc = "chunk_wait" =>
          in_flight = <<Request("chunk", Tail(chunk_coords(k_chunk_idx, k_n)))>>
    /\ (pc \notin {"attempt_wait", "probe_wait"}
        /\ k_pc \notin {"single_wait", "chunk_wait"}) => in_flight = << >>
    /\ \A c \in FailedProbes : calls[c].orders[1] \in Range(excluded_orders)
    /\ Len(excluded_orders) = Cardinality(FailedProbes)
    /\ RetryInFlight =>
          /\ FirstAttemptFailed
          /\ Len(calls) = 1 + Len(calls[1].orders)
          /\ Range(valid_orders) = Range(calls[1].orders) \ Range(excluded_orders)

C20_Witness ==
    /\ RetryInFlight
    /\ Len(excluded_orders) >= 1
    /\ Len(valid_orders) >= 2

\* both nodes are orders of different clusters, neither of them an outlier
CrossesClusters(a, b) ==
    /\ ~IsNone(s_labels) /\ a > 0 /\ b > 0
    /\ Val(s_labels)[a] >= 0 /\ Val(s_labels)[b] >= 0
    /\ Val(s_labels)[a] # Val(s_labels)[b]

\* the penalty the arc from a to b is to carry
PenaltyOf(a, b) == IF CrossesClusters(a, b) THEN 1000 ELSE 0

\* C21 as stated: the arc cost from a to b is the matrix entry [a][b], plus
\* the cluster penalty of 1000 exactly when labels are supplied, a and b are
\* both orders, both labels are >= 0 and the labels differ.
C21_ArcCostIsEntry ==
    ~IsNone(s_arc) =>
        \A a, b \in 0..NumOrders :
           Val(s_arc)[a][b] * TenthsPerSecond
              = s_matrix[a][b] + PenaltyOf(a, b) * TenthsPerSecond

\* C21: the arc cost from a to b is the whole seconds of the matrix entry
\* [a][b], plus the cluster penalty of 1000 exactly when labels are supplied,
\* a and b are both orders, both labels are >= 0 and the labels differ.
C21_ArcCostIsWholeEntry ==
    ~IsNone(s_arc) =>
        \A a, b \in 0..NumOrders :
           LET base == Val(s_arc)[a][b] - PenaltyOf(a, b)
           IN /\ base * TenthsPerSecond <= s_matrix[a][b]
              /\ s_matrix[a][b] < (base + 1) * TenthsPerSecond

C21_Witness ==
    /\ ~IsNone(s_arc) /\ NumOrders >= 3
    /\ \E a, b, c \in 1..NumOrders :
          /\ CrossesClusters(a, b) /\ Val(s_arc)[a][b] >= 1000
          /\ Val(s_labels)[c] = -1 /\ Val(s_arc)[a][c] < 1000
          /\ Val(s_arc)[0][a] < 1000

\* a solution was found and extracted
Extracted == s_pc = "done" /\ ~IsNone(s_solution) /\ ~IsNone(s_result)

\* the places, as <<route, position>>, where order index o is a stop
StopsOf(o) ==
    {<<r, k>> \in (1..Len(Val(s_result).routes)) \X (1..NumOrders) :
        /\ k <= Len(Val(s_result).routes[r].stops)
        /\ Val(s_result).routes[r].stops[k].order_index = o}

\* C22: in an extracted solution an order index is in the unassigned list
\* if and only if its solved successor is the order itself, and then it is
\* a stop of no route; every other order is a stop of exactly one route.
C22_UnassignedIffSelfSuccessor ==
    Extracted =>
        \A o \in 0..(NumOrders - 1) :
           LET self == Val(s_solution).next[o + 1] = o + 1
           IN /\ (o \in Range(Val(s_result).unassigned)) <=> self
              /\ Cardinality(StopsOf(o)) = IF self THEN 0 ELSE 1

C22_Witness ==
    /\ Extracted /\ NumOrders >= 3
    /\ Len(Val(s_result).unassigned) = 1
    /\ Len(Val(s_result).routes) = 2

\* C23: for n points and hint h with n >= h, the minimum cluster size the
\* density clustering is run with is min(h, max(3, floor(n / 30))).
C23_EffectiveMinClusterSize ==
    (z_pc = "done" /\ z_n >= z_hint) =>
        z_used = Some(Min(z_hint, Max(3, z_n \div 30)))

\* C24: whenever the merge step merges two clusters, it is the points of the
\* smaller one that are relabelled, with the id of the larger one, and the
\* centroids returned are those of the merged labels.
C24_SmallerIntoLarger ==
    (c_pc \in {"merged", "remerged"}) =>
        /\ \A i \in 1..Len(c_labels) :
              (c_labels[i] >= 0 /\ Val(c_merged).labels[i] # c_labels[i]) =>
                  Cardinality(Members(c_labels, c_labels[i]))
                     <= Cardinality(Members(c_labels, Val(c_merged).labels[i]))
        /\ Val(c_merged).centroids = CentroidsOf(c_coords, Val(c_merged).labels)

\* C25: whenever the solver is called with cluster labels, there is one
\* label per order of the travel matrix and label i is the cluster computed
\* for the order at node i + 1; after an exclusion the labels are not the
\* ones computed before it.  (Order ids are the positions of the orders in
\* the list that was clustered first.)
C25_LabelsMatchSolverOrders ==
    \A c \in 1..Len(solver_calls) :
       ~IsNone(solver_calls[c].cluster_labels) =>
           LET labels == Val(solver_calls[c].cluster_labels)
               ids == solver_calls[c].order_ids
           IN /\ Len(labels) = solver_calls[c].matrix_size - 1
              /\ Len(labels) = Len(ids)
              /\ clustering_calls = 1 =>
                    \A i \in 1..Len(ids) : labels[i] = Val(cluster_labels)[ids[i]]
              /\ excluded_orders # << >> => clustering_calls > 1

\* how often order o is a stop of a route of the result
TimesRouted(o) ==
    Cardinality({<<r, k>> \in (1..Len(Val(result).routes)) \X (1..MaxOrders) :
                    /\ k <= Len(Val(result).routes[r].stops)
                    /\ Val(result).routes[r].stops[k] = o})

\* how often order o is listed in unassigned_orders
TimesUnassigned(o) ==
    Cardinality({k \in 1..Len(Val(result).unassigned_orders) :
                    Val(result).unassigned_orders[k] = o})

\* the run returned a result after calling the solver
ReturnedAfterSolve == Done /\ ~IsNone(result) /\ solver_calls # << >>

\* C26: in a result returned after a solve, every order selected for the
\* run, the ones excluded by the retry protocol included, is a stop of
\* exactly one route or is listed in unassigned_orders.
C26_EveryOrderAccounted ==
    ReturnedAfterSolve =>
        \A o \in Range(FoundOrders) : TimesRouted(o) + TimesUnassigned(o) = 1

\* the order list the retry loop started from
LoopOrders == IF calls = << >> THEN orders ELSE FoundOrders

\* the run is in its probe round, between lines 262 and 285
InProbeRound == pc \in {"probe", "probe_wait", "probe_end"}

\* the run is at a pass of the retry loop or past the loop
AtLoopPass == pc \in {"attempt", "attempt_wait"} \/ (calls # << >> /\ ~InProbeRound)

InMatrixPhase == pc \in {"attempt", "attempt_wait", "probe", "probe_wait", "probe_end"}

\* the three ways the matrix phase ends
MatrixObtained == ~IsNone(distance_matrix)
NoValidOrdersReturned ==
    IsNone(distance_matrix) /\ ~IsNone(result)
    /\ Val(result).solver_status = "NO_VALID_ORDERS"
MatrixErrorRaised == IsNone(distance_matrix) /\ ~IsNone(http_error)

\* the calls that probed order o
ProbesOf(o) == {c \in 1..Len(calls) : calls[c].kind = "probe" /\ calls[c].orders = <<o>>}

\* what holds of the matrix phase in every state
MatrixPhaseBounded ==
    /\ (calls # << >> /\ ~InMatrixPhase) =>
          /\ MatrixObtained \/ NoValidOrdersReturned \/ MatrixErrorRaised
          /\ ~(MatrixObtained /\ NoValidOrdersReturned)
          /\ ~(MatrixObtained /\ MatrixErrorRaised)
          /\ ~(NoValidOrdersReturned /\ MatrixErrorRaised)
    /\ \A o \in 1..MaxOrders : Cardinality(ProbesOf(o)) <= 1
    /\ calls # << >> =>
          Len(calls) <= 2 * CeilDiv(Len(FoundOrders), 24) + Len(FoundOrders)

ChunkedRequestOver == k_pc = "done" /\ k_entry = "chunked" /\ ~IsNone(k_out)

FullyPopulated(m, n) ==
    /\ DOMAIN m = 0..n
    /\ \A a \in 0..n : DOMAIN m[a] = 0..n

\* C29: get_distance_matrix_chunked ends by returning no matrix or a matrix
\* of (n+1) x (n+1) entries; a failed chunk call is the last call of the
\* request and makes it return no matrix, and a matrix is returned only after
\* every chunk call succeeded.
C29_NoneOrFullMatrix ==
    ChunkedRequestOver =>
        /\ ~Val(k_out).raised
        /\ \A c \in 1..Len(k_calls) : ~k_calls[c].ok => c = Len(k_calls)
        /\ (\E c \in 1..Len(k_calls) : ~k_calls[c].ok) => IsNone(Val(k_out).matrix)
        /\ ~IsNone(Val(k_out).matrix) =>
              /\ FullyPopulated(Val(Val(k_out).matrix), k_n)
              /\ Len(k_calls) = IF k_n + 1 <= MatrixCoordLimit THEN 1 ELSE num_chunks(k_n)

\* what holds of every chunked request: a failed call ends it with no matrix,
\* and a matrix that is returned has (n+1) x (n+1) entries
FailedChunkStopsRequest ==
    ChunkedRequestOver =>
        /\ \A c \in 1..Len(k_calls) : ~k_calls[c].ok => c = Len(k_calls)
        /\ (\E c \in 1..Len(k_calls) : ~k_calls[c].ok) =>
              ~Val(k_out).raised /\ IsNone(Val(k_out).matrix)
        /\ (~Val(k_out).raised /\ ~IsNone(Val(k_out).matrix)) =>
              FullyPopulated(Val(Val(k_out).matrix), k_n)

\* the nodes a reported route visits: the depot, its stops in order, the depot
PathOf(route) ==
    <<0>> \o [k \in 1..Len(route.stops) |-> route.stops[k].order_index + 1] \o <<0>>

\* the sum of table[a][b] over the consecutive nodes a, b of a path
RECURSIVE AlongPath(_, _)
AlongPath(table, path) ==
    IF Len(path) < 2 THEN 0
    ELSE table[path[1]][path[2]] + AlongPath(table, Tail(path))

\* C30: the total_distance of each reported route is the sum of the travel
\* matrix entries along depot, stops, depot, the cluster penalty being no part
\* of it, and the result's total_distance is the sum of its routes'
\* total_distance.
C30_ReportedDistanceIsMatrixSum ==
    Extracted =>
        /\ \A r \in 1..Len(Val(s_result).routes) :
              Val(s_result).routes[r].total_distance * TenthsPerSecond
                 = AlongPath(s_matrix, PathOf(Val(s_result).routes[r]))
        /\ Val(s_result).total_distance
              = SumOver(1..Len(Val(s_result).routes),
                        [r \in 1..Len(Val(s_result).routes) |->
                            Val(s_result).routes[r].total_distance])

\* what is reported instead: the arc costs along the route, penalties
\* included, and their sum over the routes
ReportedDistanceIsArcCostSum ==
    Extracted =>
        /\ \A r \in 1..Len(Val(s_result).routes) :
              Val(s_result).routes[r].total_distance
                 = AlongPath(Val(s_arc), PathOf(Val(s_result).routes[r]))
        /\ Val(s_result).total_distance
              = SumOver(1..Len(Val(s_result).routes),
                        [r \in 1..Len(Val(s_result).routes) |->
                            Val(s_result).routes[r].total_distance])

====
